---- MODULE Spec2Model ----
(***************************************************************************)
(* Binary-cache retention of action-setup-vcpkg: the post step of the      *)
(* action.  Two variants of the post step exist in the repository:         *)
(*   - "identity": keep the newest archive per (package, architecture),    *)
(*     src/src/post.ts lines 1-131;                                        *)
(*   - "size": evict the oldest archives until the cache fits the byte     *)
(*     budget, src/src/post.ts lines 133-239.                              *)
(* A deployment runs one of them; `policy` records which.                  *)
(* Sizes are counted in MiB, so that 3 GiB is 3 * 1024.                    *)
(***************************************************************************)
EXTENDS Integers, Sequences, FiniteSets, TLC

\* ---------------------------------------------------------------- bounds
MaxArchives == 3
MaxTime == 3
MaxPasses == 2
MaxEntries == 2
MaxLines == 3
MaxCached == 2
MaxDirents == 3

\* ------------------------------------------------------ program constants
\* MiB in a GiB.
GiB == 1024

\* 3 GB for 3 GiB.
maximumCacheSizeDecimal == 3 * 1000

\* 3 * 1024 * 1024 * 1024 bytes.
maximumCacheSize == 3 * 1024

PackageNames == {"libfoo", "libbar"}
Architectures == {"x64", "arm64"}

\* What reading the CONTROL entry of an archive yields: an identity, or
\* nothing, for an archive that cannot be opened, holds no CONTROL entry or
\* lacks a required key.
Identities ==
    [kind : {"ok"}, packageName : PackageNames, architecture : Architectures]
NoMeta == [kind |-> "broken", packageName |-> "", architecture |-> ""]
Metas == Identities \cup {NoMeta}

Sizes == {0, GiB, 3 * GiB, 3 * GiB + 1}
IdentitySizes == {GiB}

VARIABLES
    policy,              \* "identity" | "size"
    disk,                \* path -> [size, mtime, meta]: the files the cache ever held
    onDisk,              \* the paths that exist now
    pass,                \* number of the post step being run
    pc,                  \* where the post step is suspended
    outcome,             \* how a finished post step ended
    mainStepSucceeded,   \* core.getState('mainStepSucceeded') as read, or "unread"
    saveCacheInput,      \* inputs.saveCache as parsed, or "unread"
    previousHash,        \* core.getState('latestBinaryPackageHash') as read
    cacheKey,            \* core.getState('cacheKey') as read, or "unread"
    snapshot,            \* what the scanner returned
    packages,            \* the array the policy works on
    totalSize,           \* running total of the size policy / logged total
    idx,                 \* position of the extraction loop
    identifiedPackages,  \* Map<name, Map<arch, BinaryPackage[]>> in insertion order
    remainingPackages,   \* Set of the archives not scheduled for deletion
    grouped,             \* the scheduling loop of the pass has run
    rmPromises,          \* paths handed to fs.rm, in call order
    rmStatus,            \* state of each fs.rm promise
    thrown,              \* the error that reached runMain: "" | "rm" | "cacheKey"
    reported,            \* the paths whose rm error the raised message carries
    setFailed,           \* core.setFailed was called
    saveCacheCalls,      \* invocations of saveCache()
    cacheSaveCalls,      \* invocations of cache.saveCache()
    survivorsBefore      \* onDisk at the start of the pass

\* One call of extractBinaryPackageControl, src/src/extractControl.ts.
VARIABLES
    stage,               \* the await the call is suspended at
    zipfile,             \* the container handle: "none" | "open" | "closed"
    readEntryPending,    \* zipfile.readEntry() was called and has not answered
    entriesRead,         \* the names of the entries emitted so far
    stream,              \* "none" | "flowing" | "destroyed" | "ended" | "errored"
    rlClosed,            \* rl.close() was called
    linesRead,           \* the lines the reader has emitted so far
    packageName,         \* the local `packageName`
    architecture,        \* the local `architecture`
    resolved,            \* what the promise of line 60 resolved with
    rejection,           \* what the call throws
    promise,             \* the returned promise
    ending               \* the event of the container that ended the reading

\* The cache between the main step and the post step: restoreCache of the
\* main step (src/unnamed/part_004), the build, the detector of the post step.
VARIABLES
    phase,               \* "main" | "build" | "post" | "done"
    cache,               \* path -> [size, mtime]: the archives of the cache
    recorded,            \* the state latestBinaryPackageHash
    recordedFrom,        \* the archive whose hash the main step saved
    replacement,         \* the archive the build replaced, and by which
    scanned,             \* the array findBinaryPackages gave the post step
    scannedAfter,        \* that array after didLatestPackageChange
    detected,            \* "" | "noPackages" | "changed" | "unchanged"
    restored             \* how cache.restoreCache ended: "" | "hit" | "miss" | "error"

\* One call of findBinaryPackages, src/src/common.ts, by the post step.
VARIABLES
    tree,                \* the entries under the cache root: [parent, kind, name, mtime]
    walk,                \* "idle" | "walking" | "awaitStats" | "returned" | "rejected" | "crashed"
    dirStack,            \* the directories findBinaryPackagesInDir is iterating, innermost last
    visited,             \* the last entry a directory iterator yielded
    statPromises,        \* the paths handed to statPackage, in call order
    statStatus,          \* state of each statPackage promise
    pushed,              \* the local array `packages` of findBinaryPackages
    scanFailure          \* "" | "opendir" | "stat": what failed first

\* The main step, src/src/main.ts.
VARIABLES
    mainPc,              \* where main() of the main step is suspended
    inputs,              \* parseInputs(): runSetup, runInstall; whether vcpkgRoot is a directory
    restoreOutcome,      \* "" | "mkdirFailed" | "hit" | "miss" | "error"
    commands,            \* the commands spawned so far and how each ended
    recordedSuccess,     \* the state mainStepSucceeded: "" | "true"
    mainSetFailed        \* core.setFailed was called by the main step

postVars == <<policy, disk, onDisk, pass, pc, outcome, mainStepSucceeded,
              saveCacheInput, previousHash, cacheKey, snapshot, packages,
              totalSize, idx, identifiedPackages, remainingPackages, grouped,
              rmPromises, rmStatus, thrown, reported, setFailed, saveCacheCalls,
              cacheSaveCalls, survivorsBefore>>

extractVars == <<stage, zipfile, readEntryPending, entriesRead, stream, rlClosed,
                 linesRead, packageName, architecture, resolved, rejection, promise,
                 ending>>

detectVars == <<phase, cache, recorded, recordedFrom, replacement, scanned,
                scannedAfter, detected, restored>>

scanVars == <<tree, walk, dirStack, visited, statPromises, statStatus, pushed,
              scanFailure>>

mainVars == <<mainPc, inputs, restoreOutcome, commands, recordedSuccess,
              mainSetFailed>>

vars == <<postVars, extractVars, detectVars, scanVars, mainVars>>

\* The post step does not touch what the other components hold.
otherThanPost == <<extractVars, detectVars, scanVars, mainVars>>

\* A call of the extractor does not touch what the other components hold.
otherThanExtract == <<postVars, detectVars, scanVars, mainVars>>

\* Nor do the steps around the change detector.
otherThanDetect == <<postVars, extractVars, scanVars, mainVars>>

\* The scanner runs inside the post step.
otherThanScan == <<extractVars, detectVars, mainVars>>

\* ------------------------------------------------------------- helpers
Range(s) == {s[i] : i \in DOMAIN s}

Front(s) == SubSeq(s, 1, Len(s) - 1)

Last(s) == s[Len(s)]

RECURSIVE Reverse(_)
Reverse(s) == IF s = <<>> THEN <<>> ELSE Append(Reverse(Tail(s)), Head(s))

RECURSIVE SumSizes(_)
SumSizes(s) == IF s = <<>> THEN 0 ELSE Head(s).size + SumSizes(Tail(s))

RECURSIVE SumDisk(_, _)
SumDisk(d, S) ==
    IF S = {} THEN 0
    ELSE LET f == CHOOSE x \in S : TRUE IN d[f].size + SumDisk(d, S \ {f})

Paths(s) == {s[i].filePath : i \in DOMAIN s}

\* Every order in which the paths of S can arrive.
Orderings(S) ==
    {s \in [1..Cardinality(S) -> S] : \A i, j \in DOMAIN s : i # j => s[i] # s[j]}

\* --------------------------------------------------------------- scanner
\* statPackage: the BinaryPackage pushed for one path.
statPackage(d, filePath) ==
    [filePath |-> filePath, size |-> d[filePath].size, mtime |-> d[filePath].mtime]

\* The comparator with its operands swapped: oldest first.
compareAscending(a, b) == a.mtime - b.mtime

\* The comparator of packages.sort: negative when a goes first.
compareMtime(a, b) == b.mtime - a.mtime

\* Array.prototype.sort is stable: an element goes behind every element that
\* the comparator does not put after it.
InsertSorted(sorted, p) ==
    LET k == Cardinality({i \in DOMAIN sorted : compareMtime(sorted[i], p) <= 0})
    IN SubSeq(sorted, 1, k) \o <<p>> \o SubSeq(sorted, k + 1, Len(sorted))

RECURSIVE SortPackages(_)
SortPackages(s) ==
    IF s = <<>> THEN <<>> ELSE InsertSorted(SortPackages(Front(s)), Last(s))

\* A file name is the sequence of its pieces; no piece but ".zip" ends in
\* the characters .zip.
ZIP_EXTENSION == ".zip"

\* String.prototype.endsWith
endsWith(fileName, suffix) == fileName # <<>> /\ Last(fileName) = suffix

\* The extension in small or capital letters.
isZipFileIgnoringCase(fileName) ==
    endsWith(fileName, ".zip") \/ endsWith(fileName, ".ZIP")

isZipFile(fileName) == endsWith(fileName, ZIP_EXTENSION)

\* What a directory holds: regular files, an archive among them having been
\* written at one of two times; a directory and an entry that is neither a
\* directory nor a regular file (a symbolic link), both named like an archive.
FileNames == { <<"x", ".zip">>, <<"x", ".ZIP">>, <<"x", ".zip", ".part">> }
Dirents ==
    [kind : {"file"}, name : {<<"x", ".zip">>}, mtime : 1..2]
    \cup [kind : {"file"}, name : FileNames \ {<<"x", ".zip">>}, mtime : {1}]
    \cup [kind : {"dir", "other"}, name : {<<"x", ".zip">>}, mtime : {1}]

\* The directories from entry i up to the cache root, which is 0; entry i
\* itself when it is a directory.
RECURSIVE DirsAbove(_, _, _)
DirsAbove(kinds, parents, i) ==
    IF i = 0 THEN {0}
    ELSE (IF kinds[i] = "dir" THEN {i} ELSE {})
         \cup DirsAbove(kinds, parents, IF parents[i] < i THEN parents[i] ELSE 0)

\* The entries are numbered in the order a depth-first walk meets them.
DepthFirst(kinds, parents) ==
    \A i \in DOMAIN parents :
        parents[i] < i /\ parents[i] \in DirsAbove(kinds, parents, i - 1)

\* findBinaryPackages: the stats run concurrently and push in the order
\* `arrival` in which they complete, then the array is sorted by mtime,
\* newest first.
findBinaryPackages(d, arrival) ==
    SortPackages([i \in DOMAIN arrival |-> statPackage(d, arrival[i])])

\* The scan of the size variant without its sort: the files in the order of
\* the directory walk.
findCachedPackagesUnsorted(d, enumeration) ==
    LET pkgs == [i \in DOMAIN enumeration |-> statPackage(d, enumeration[i])]
    IN [packages |-> pkgs, totalSize |-> SumSizes(pkgs)]

\* findCachedPackages of the size variant: the files are stat'ed one by one
\* in the order `enumeration` of the directory walk, sorted by mtime, newest
\* first, and their sizes added up.
findCachedPackages(d, enumeration) ==
    LET pkgs == SortPackages([i \in DOMAIN enumeration |-> statPackage(d, enumeration[i])])
    IN [packages |-> pkgs, totalSize |-> SumSizes(pkgs)]

\* ------------------------------------------------------- change detector
RECURSIVE numberToString(_)
numberToString(n) == IF n < 10 THEN <<n>> ELSE Append(numberToString(n \div 10), n % 10)

\* A digest of mtime and size alone.
computeHashWithoutPath(pkg) == numberToString(pkg.mtime) \o numberToString(pkg.size)

\* sha256 over path, mtime and size written one after the other; the digest
\* stands for the text it was fed.
computeHashOfBinaryPackage(pkg) ==
    <<pkg.filePath>> \o numberToString(pkg.mtime) \o numberToString(pkg.size)

NoHash == <<>>

\* The hash of the archive at the end of the array decides.
didOldestPackageChange(pkgs, prev) == computeHashOfBinaryPackage(Last(pkgs)) # prev

\* No recorded hash counts as no change.
didLatestPackageChangeSinceRecorded(pkgs, prev) ==
    prev # NoHash /\ computeHashOfBinaryPackage(pkgs[1]) # prev

didLatestPackageChange(pkgs, prev) == computeHashOfBinaryPackage(pkgs[1]) # prev

\* Array.prototype.at(i): the element, or undefined, and the array, which it
\* only reads.
at(array, i) ==
    [value |-> IF i < Len(array) THEN <<array[i + 1]>> ELSE <<>>,
     array |-> array]

\* The paths, modification times and sizes of the archives between the two
\* steps.  Numbers are hashed as their decimal digits: 1 then 21 reads as 12
\* then 1.
DetectPaths == {"a.zip", "b.zip", "c.zip"}
DetectTimes == {1, 2, 12}
DetectSizes == {1, 21}
ArchiveAttrs == [size : DetectSizes, mtime : DetectTimes]

\* ------------------------------------------------------------- extractor
\* extractBinaryPackageControl as the retention engine sees it: it resolves
\* with the identity written in CONTROL, or rejects.
extractBinaryPackageControl(d, pkg) ==
    LET m == d[pkg.filePath].meta
    IN IF m.kind = "ok"
       THEN [ok |-> TRUE, packageName |-> m.packageName, architecture |-> m.architecture]
       ELSE [ok |-> FALSE, packageName |-> "", architecture |-> ""]

\* -------------------------------------------------- reading the CONTROL
\* A text is the sequence of its pieces; a piece is a blank, a colon, or a
\* word that holds neither and is not part of another word.
controlFileName == "CONTROL"
packageNameKey == <<"Package">>
architectureKey == <<"Architecture">>
keyValueSeparator == ":"

Whitespace == {" "}

\* let x: T | undefined
undefined == <<>>
Some(v) == <<v>>

\* The position counted from the end.
lastIndexOf(line, c) ==
    IF \E i \in DOMAIN line : line[i] = c
    THEN (CHOOSE i \in DOMAIN line :
              line[i] = c /\ \A j \in (i + 1)..Len(line) : line[j] # c) - 1
    ELSE -1

\* String.prototype.indexOf: the position, from 0, of the first c, or -1.
indexOf(line, c) ==
    IF \E i \in DOMAIN line : line[i] = c
    THEN (CHOOSE i \in DOMAIN line :
              line[i] = c /\ \A j \in 1..(i - 1) : line[j] # c) - 1
    ELSE -1

\* String.prototype.slice(from, to) with 0 <= from and to <= length.
slice(line, from, to) == SubSeq(line, from + 1, to)

\* String.prototype.trim: the text without its leading and trailing blanks.
trim(s) ==
    LET inked == {i \in DOMAIN s : s[i] \notin Whitespace}
    IN IF inked = {} THEN <<>>
       ELSE SubSeq(s, CHOOSE i \in inked : \A j \in inked : i <= j,
                      CHOOSE i \in inked : \A j \in inked : j <= i)

\* key == packageNameKey, key == architectureKey: equality of strings.
keyEquals(key, name) == key = name

\* The two locals after the 'line' listener (lines 65-83) has run on `line`.
onLine(pn, ar, line) ==
    LET separatorIndex == indexOf(line, keyValueSeparator)
        key == trim(slice(line, 0, separatorIndex))
        lazyValue == trim(slice(line, separatorIndex + 1, Len(line)))
    IN IF separatorIndex # -1
       THEN IF keyEquals(key, packageNameKey)
            THEN [packageName |-> Some(lazyValue), architecture |-> ar]
            ELSE IF keyEquals(key, architectureKey)
            THEN [packageName |-> pn, architecture |-> Some(lazyValue)]
            ELSE [packageName |-> pn, architecture |-> ar]
       ELSE [packageName |-> pn, architecture |-> ar]

\* The test of line 77, reached only for a line with a separator.
bothFound(pn, ar, line) ==
    /\ indexOf(line, keyValueSeparator) # -1
    /\ pn # undefined
    /\ ar # undefined

\* A key counts as missing when its value is empty.
notFoundWhenFalsy(pn, ar) ==
    (IF pn = undefined \/ pn = Some(<<>>) THEN packageNameKey ELSE <<>>)
    \o (IF ar = undefined \/ ar = Some(<<>>) THEN architectureKey ELSE <<>>)

\* The array `notFound` of the 'end' listener (lines 85-91).
notFound(pn, ar) ==
    (IF pn = undefined THEN packageNameKey ELSE <<>>)
    \o (IF ar = undefined THEN architectureKey ELSE <<>>)

\* The names an entry of a container can carry.
EntryNames == {"CONTROL", "control", "BUILD_INFO"}

\* The name is CONTROL in small or capital letters.
isControlEntryIgnoringCase(fileName) == fileName \in {"CONTROL", "control"}

\* entry.fileName === controlFileName
isControlEntry(fileName) == fileName = controlFileName

\* The lines a CONTROL entry is made of here.
ControlLines ==
    { <<"Package", ":", " ", "libfoo">>,
      <<"Architecture", ":", " ", "x64">>,
      <<" ", "Package", " ", ":", "libbar", " ">>,
      <<"Architecture", ":", "arm64", ":", "static">>,
      <<"package", ":", " ", "libbar">>,
      <<"Version", ":", " ", "1.0">>,
      <<"Package", ":">>,
      <<"libfoo", " ", "x64">>,
      <<>> }

\* What the call throws, and `NoError` while it throws nothing.
NoError == [message |-> "", keys |-> <<>>]
Failure(message) == [message |-> message, keys |-> <<>>]
MissingKeys(keys) == [message |-> "doesn't contain required keys", keys |-> keys]

\* ------------------------------------------------- identity-based policy
\* Position of key k in an insertion-ordered Map, 0 when absent.
IndexOfKey(map, k) ==
    IF \E i \in DOMAIN map : map[i].key = k
    THEN CHOOSE i \in DOMAIN map : map[i].key = k
    ELSE 0

computeIfAbsent(map, k, default) ==
    IF IndexOfKey(map, k) = 0 THEN Append(map, [key |-> k, value |-> default]) ELSE map

\* The try block without the architecture level: one list per name.
AddIdentifiedByName(identified, pkg, control) ==
    LET m1 == computeIfAbsent(identified, control.packageName, <<>>)
        i == IndexOfKey(m1, control.packageName)
        in1 == computeIfAbsent(m1[i].value, "", <<>>)
        j == IndexOfKey(in1, "")
        in2 == [in1 EXCEPT ![j].value = Append(@, pkg)]
    IN [m1 EXCEPT ![i].value = in2]

\* The try block without the name level: one list per architecture.
AddIdentifiedByArch(identified, pkg, control) ==
    LET m1 == computeIfAbsent(identified, "", <<>>)
        i == IndexOfKey(m1, "")
        in1 == computeIfAbsent(m1[i].value, control.architecture, <<>>)
        j == IndexOfKey(in1, control.architecture)
        in2 == [in1 EXCEPT ![j].value = Append(@, pkg)]
    IN [m1 EXCEPT ![i].value = in2]

\* The body of the try block: pkg is pushed to the list of its name and arch.
AddIdentified(identified, pkg, control) ==
    LET m1 == computeIfAbsent(identified, control.packageName, <<>>)
        i == IndexOfKey(m1, control.packageName)
        in1 == computeIfAbsent(m1[i].value, control.architecture, <<>>)
        j == IndexOfKey(in1, control.architecture)
        in2 == [in1 EXCEPT ![j].value = Append(@, pkg)]
    IN [m1 EXCEPT ![i].value = in2]

\* The iteration without its catch: whatever the extraction gave is grouped.
GroupPackageUncaught(identified, d, pkg) ==
    AddIdentified(identified, pkg, extractBinaryPackageControl(d, pkg))

\* One iteration of the for loop over packages: a failed extraction is logged
\* and leaves the map alone.
GroupPackage(identified, d, pkg) ==
    LET control == extractBinaryPackageControl(d, pkg)
    IN IF control.ok THEN AddIdentified(identified, pkg, control) ELSE identified

\* The lists of all (name, arch) pairs, in the iteration order of the two maps.
RECURSIVE Flatten(_)
Flatten(ss) == IF ss = <<>> THEN <<>> ELSE Head(ss) \o Flatten(Tail(ss))

GroupLists(identified) ==
    Flatten([i \in DOMAIN identified |->
                [j \in DOMAIN identified[i].value |-> identified[i].value[j].value]])

\* The pop loop written as an if: one archive popped per list.
PopOnce(pkgs) == IF Len(pkgs) > 1 THEN <<Last(pkgs)>> ELSE <<>>

\* while (length > 1) pop(): the popped archives of one list, in pop order.
OldVersions(pkgs) == IF Len(pkgs) > 1 THEN Reverse(Tail(pkgs)) ELSE <<>>

\* The archives handed to fs.rm by the scheduling loop, in call order.
ScheduledRemovals(identified) ==
    LET lists == GroupLists(identified)
    IN Flatten([i \in DOMAIN lists |-> OldVersions(lists[i])])

\* The bookkeeping without remainingPackages.delete(pkg).
remainingWithoutDelete(pkgs, removals) == Paths(pkgs)

\* remainingPackages: the Set built from the array, from which every archive
\* handed to fs.rm is deleted.
remainingAfter(pkgs, removals) == Paths(pkgs) \ Paths(removals)

\* The grouping loop run over a whole array.
RECURSIVE IdentifyAll(_, _)
IdentifyAll(d, pkgs) ==
    IF pkgs = <<>> THEN <<>>
    ELSE GroupPackage(IdentifyAll(d, Front(pkgs)), d, Last(pkgs))

\* ----------------------------------------------------- size-based policy
\* The eviction loop written as an if.
EvictOnce(pkgs, total, removed) ==
    IF total > maximumCacheSize /\ Len(pkgs) > 0
    THEN [packages |-> Front(pkgs), totalSize |-> total - Last(pkgs).size,
          removed |-> Append(removed, Last(pkgs))]
    ELSE [packages |-> pkgs, totalSize |-> total, removed |-> removed]

\* The eviction loop with >= for >.
RECURSIVE EvictWhileAtLeast(_, _, _)
EvictWhileAtLeast(pkgs, total, removed) ==
    IF total >= maximumCacheSize /\ Len(pkgs) > 0
    THEN EvictWhileAtLeast(Front(pkgs), total - Last(pkgs).size,
                           Append(removed, Last(pkgs)))
    ELSE [packages |-> pkgs, totalSize |-> total, removed |-> removed]

\* The eviction loop that stops at the last archive.
RECURSIVE EvictLoopKeepingOne(_, _, _)
EvictLoopKeepingOne(pkgs, total, removed) ==
    IF total > maximumCacheSize /\ Len(pkgs) > 1
    THEN EvictLoopKeepingOne(Front(pkgs), total - Last(pkgs).size,
                             Append(removed, Last(pkgs)))
    ELSE [packages |-> pkgs, totalSize |-> total, removed |-> removed]

\* The while loop of removeOldestPackages: pops the oldest archive while the
\* running total is over the budget.
RECURSIVE EvictLoop(_, _, _)
EvictLoop(pkgs, total, removed) ==
    IF total > maximumCacheSize /\ Len(pkgs) > 0
    THEN EvictLoop(Front(pkgs), total - Last(pkgs).size, Append(removed, Last(pkgs)))
    ELSE [packages |-> pkgs, totalSize |-> total, removed |-> removed]

\* The eviction run on a copy of the array: the array handed in stays whole.
removeOldestPackagesOnCopy(cachedPackages) ==
    [packages |-> cachedPackages.packages,
     totalSize |-> EvictLoop(cachedPackages.packages, cachedPackages.totalSize, <<>>).totalSize,
     removed |-> IF cachedPackages.totalSize <= maximumCacheSize THEN <<>>
                 ELSE EvictLoop(cachedPackages.packages, cachedPackages.totalSize, <<>>).removed]

\* removeOldestPackages up to its await: the array it goes on with, the
\* running total and the archives handed to fs.rm.
removeOldestPackages(cachedPackages) ==
    IF cachedPackages.totalSize <= maximumCacheSize
    THEN [packages |-> cachedPackages.packages,
          totalSize |-> cachedPackages.totalSize, removed |-> <<>>]
    ELSE EvictLoop(cachedPackages.packages, cachedPackages.totalSize, <<>>)

\* ------------------------------------------------------ deletion barrier
\* Promise.allSettled followed by a look for a rejection: nothing is decided
\* while a promise is pending.
PromiseAllSettled(status) ==
    IF \E i \in DOMAIN status : status[i] = "pending" THEN "pending"
    ELSE IF \E i \in DOMAIN status : status[i] = "rejected" THEN "rejected"
    ELSE "fulfilled"

\* Promise.all over the fs.rm promises: rejected as soon as one of them is,
\* fulfilled when all are.
PromiseAll(status) ==
    IF \E i \in DOMAIN status : status[i] = "rejected" THEN "rejected"
    ELSE IF \A i \in DOMAIN status : status[i] = "fulfilled" THEN "fulfilled"
    ELSE "pending"

\* The message without errorAsString(error).
RemoveErrorMessageBare(path) == {}

\* The catch block around the barrier: what the AbortActionError message names.
RemoveErrorMessage(path) == {path}

\* runMain logging the error without core.setFailed.
runMainSwallows(error) == FALSE

\* runMain: every error that reaches it ends in core.setFailed.
runMainCatches(error) == error # ""


\* ------------------------------------------------------------ the state
FileRecords(pol) ==
    IF pol = "identity"
    THEN [size : IdentitySizes, mtime : 1..MaxTime, meta : Metas]
    ELSE [size : Sizes, mtime : 1..MaxTime, meta : {NoMeta}]

\* Five archives of 1 GiB each, the i-th written at time i.
ScenarioB == [i \in 1..5 |-> [size |-> GiB, mtime |-> i, meta |-> NoMeta]]

\* Paths are opaque names and the order in which the scanner meets them is
\* drawn at every scan, so the files are listed by modification time, then
\* size, then content: every multiset of files is there once.
MetaRank(m) ==
    IF m.kind # "ok" THEN 0
    ELSE (IF m.packageName = "libfoo" THEN 1 ELSE 3)
         + (IF m.architecture = "x64" THEN 0 ELSE 1)

FileLeq(a, b) ==
    \/ a.mtime < b.mtime
    \/ a.mtime = b.mtime /\ a.size < b.size
    \/ a.mtime = b.mtime /\ a.size = b.size /\ MetaRank(a.meta) <= MetaRank(b.meta)

\* extractBinaryPackageControl has just been called.
ExtractStart ==
    /\ stage = "open"
    /\ zipfile = "none"
    /\ readEntryPending = FALSE
    /\ entriesRead = <<>>
    /\ stream = "none"
    /\ rlClosed = FALSE
    /\ linesRead = <<>>
    /\ packageName = undefined
    /\ architecture = undefined
    /\ resolved = undefined
    /\ rejection = NoError
    /\ promise = "pending"
    /\ ending = ""

\* Package names and architectures are only ever compared for equality, so of
\* the caches that differ by exchanging the two names or the two architectures
\* one is listed: the one where libfoo and x64 are not the rarer.
NamesLeq(d) ==
    LET named(n) == {i \in DOMAIN d : d[i].meta.kind = "ok" /\ d[i].meta.packageName = n}
        built(a) == {i \in DOMAIN d : d[i].meta.kind = "ok" /\ d[i].meta.architecture = a}
    IN /\ Cardinality(named("libfoo")) >= Cardinality(named("libbar"))
       /\ Cardinality(built("x64")) >= Cardinality(built("arm64"))

\* Modification times are only ever compared with each other, so they are
\* listed without gaps: the times of a cache are 1, 2, ... up to their number.
TimesDense(d) ==
    LET times == {d[i].mtime : i \in DOMAIN d} IN times = 1..Cardinality(times)

\* findBinaryPackages has not been called.
ScanIdle ==
    /\ tree = <<>>
    /\ walk = "idle"
    /\ dirStack = <<>>
    /\ visited = 0
    /\ statPromises = <<>>
    /\ statStatus = <<>>
    /\ pushed = <<>>
    /\ scanFailure = ""

\* The main step is not looked at.
MainIdle ==
    /\ mainPc = "idle"
    /\ inputs = [runSetup |-> FALSE, runInstall |-> FALSE, vcpkgRootExists |-> FALSE]
    /\ restoreOutcome = ""
    /\ commands = <<>>
    /\ recordedSuccess = ""
    /\ mainSetFailed = FALSE

\* No step has touched the cache, which is empty.
DetectIdle ==
    /\ phase = "main"
    /\ cache = <<>>
    /\ recorded = NoHash
    /\ recordedFrom = <<>>
    /\ replacement = <<>>
    /\ scanned = <<>>
    /\ scannedAfter = <<>>
    /\ detected = ""
    /\ restored = ""

Init ==
    /\ ExtractStart
    /\ DetectIdle
    /\ ScanIdle
    /\ MainIdle
    /\ policy \in {"identity", "size"}
    /\ \/ \E n \in 0..MaxArchives :
            /\ disk \in [1..n -> FileRecords(policy)]
            /\ \A i \in 1..(n - 1) : FileLeq(disk[i], disk[i + 1])
            /\ NamesLeq(disk)
            /\ TimesDense(disk)
       \/ policy = "size" /\ disk = ScenarioB
    /\ onDisk = DOMAIN disk
    /\ survivorsBefore = DOMAIN disk
    /\ pass = 1
    /\ pc = "start"
    /\ outcome = ""
    /\ mainStepSucceeded = "unread"
    /\ saveCacheInput = "unread"
    /\ previousHash = NoHash
    /\ cacheKey = "unread"
    /\ snapshot = <<>>
    /\ packages = <<>>
    /\ totalSize = 0
    /\ idx = 0
    /\ identifiedPackages = <<>>
    /\ remainingPackages = {}
    /\ grouped = FALSE
    /\ rmPromises = <<>>
    /\ rmStatus = <<>>
    /\ thrown = ""
    /\ reported = {}
    /\ setFailed = FALSE
    /\ saveCacheCalls = 0
    /\ cacheSaveCalls = 0

\* ------------------------------------------------------- shared pieces
\* An error leaves main() and is caught by runMain.
Throw(error, named) ==
    /\ thrown' = error
    /\ reported' = named
    /\ setFailed' = runMainCatches(error)
    /\ pc' = "failed"
    /\ outcome' = outcome

\* main() returns without an error.
Return(how) ==
    /\ pc' = "done"
    /\ outcome' = how
    /\ UNCHANGED <<thrown, reported, setFailed>>

\* saveCache() without the test of the key: the cache upload always starts.
EnterSaveCacheUnchecked ==
    \E key \in {"", "key"} :
        /\ cacheKey' = key
        /\ saveCacheCalls' = saveCacheCalls + 1
        /\ cacheSaveCalls' = cacheSaveCalls + 1
        /\ pc' = "awaitSave"
        /\ UNCHANGED <<outcome, thrown, reported, setFailed>>

\* saveCache() up to its await: the key is read from the state store, a missing
\* key is fatal, otherwise the cache upload starts.
EnterSaveCache ==
    \E key \in {"", "key"} :
        /\ cacheKey' = key
        /\ saveCacheCalls' = saveCacheCalls + 1
        /\ IF key = ""
           THEN /\ Throw("cacheKey", {})
                /\ UNCHANGED cacheSaveCalls
           ELSE /\ cacheSaveCalls' = cacheSaveCalls + 1
                /\ pc' = "awaitSave"
                /\ UNCHANGED <<outcome, thrown, reported, setFailed>>

NoSave == UNCHANGED <<cacheKey, saveCacheCalls, cacheSaveCalls>>

\* What follows `await Promise.all(rmPromises)` once the promise at position i
\* has settled and the statuses are `status`.
AfterSettle(status, i) ==
    IF pc = "awaitRm" /\ PromiseAll(status) = "rejected"
    THEN /\ Throw("rm", RemoveErrorMessage(
                 IF status[i] = "rejected" THEN rmPromises[i]
                 ELSE rmPromises[CHOOSE j \in DOMAIN status : status[j] = "rejected"]))
         /\ NoSave
         /\ UNCHANGED totalSize
    ELSE IF pc = "awaitRm" /\ PromiseAll(status) = "fulfilled"
    THEN IF policy = "identity"
         THEN /\ totalSize' = SumDisk(disk, remainingPackages)
              /\ EnterSaveCache
         ELSE /\ UNCHANGED totalSize
              /\ IF Len(packages) > 0
                 THEN EnterSaveCache
                 ELSE Return("emptied") /\ NoSave
    ELSE /\ NoSave
         /\ UNCHANGED <<pc, outcome, thrown, reported, setFailed, totalSize>>

\* ----------------------------------------------------------- the actions
\* main() of the identity variant up to the scan.
PostMain ==
    /\ UNCHANGED otherThanPost
    /\ policy = "identity"
    /\ pc = "start"
    /\ \E ms \in {"true", ""}, sc \in BOOLEAN :
        /\ mainStepSucceeded' = ms
        /\ IF ms # "true"
           THEN /\ Return("mainStepFailed")
                /\ UNCHANGED saveCacheInput
           ELSE /\ saveCacheInput' = sc
                /\ IF sc
                   THEN /\ pc' = "scan"
                        /\ UNCHANGED <<outcome, thrown, reported, setFailed>>
                   ELSE Return("saveDisabled")
    /\ NoSave
    /\ UNCHANGED <<policy, disk, onDisk, pass, previousHash, snapshot, packages,
                   totalSize, idx, identifiedPackages, remainingPackages, grouped,
                   rmPromises, rmStatus, survivorsBefore>>

\* The hashes the main step can have recorded: none, that of the newest
\* archive, or that of another one.
PreviousHashes(pkgs) ==
    {NoHash, computeHashOfBinaryPackage(pkgs[1]), computeHashOfBinaryPackage(Last(pkgs))}

\* main() without the change detector: any archive found leads to pruning.
AfterScanUngated(pkgs) ==
    /\ snapshot' = pkgs
    /\ packages' = pkgs
    /\ IF Len(pkgs) = 0
       THEN /\ Return("noPackages")
            /\ UNCHANGED <<previousHash, idx>>
       ELSE \E prev \in PreviousHashes(pkgs) :
            /\ previousHash' = prev
            /\ pc' = "extract"
            /\ idx' = 1
            /\ UNCHANGED <<outcome, thrown, reported, setFailed>>
    /\ NoSave

\* main() once the scan has returned `pkgs`: without an archive it returns,
\* otherwise it goes on to the change detector and, when the cache changed,
\* to the first extraction.
AfterScan(pkgs) ==
    /\ snapshot' = pkgs
    /\ packages' = pkgs
    /\ IF Len(pkgs) = 0
       THEN /\ Return("noPackages")
            /\ UNCHANGED <<previousHash, idx>>
       ELSE \E prev \in PreviousHashes(pkgs) :
            /\ previousHash' = prev
            /\ IF didLatestPackageChange(pkgs, prev)
               THEN /\ pc' = "extract"
                    /\ idx' = 1
                    /\ UNCHANGED <<outcome, thrown, reported, setFailed>>
               ELSE /\ Return("unchanged")
                    /\ UNCHANGED idx
    /\ NoSave

\* The scan of the identity variant completes.
FindBinaryPackagesDone ==
    /\ UNCHANGED otherThanPost
    /\ policy = "identity"
    /\ pc = "scan"
    /\ \E arrival \in Orderings(onDisk) : AfterScan(findBinaryPackages(disk, arrival))
    /\ UNCHANGED <<policy, disk, onDisk, pass, mainStepSucceeded, saveCacheInput,
                   totalSize, identifiedPackages, remainingPackages, grouped,
                   rmPromises, rmStatus, survivorsBefore>>

\* The lists after the scheduling loop popped their old versions.
PopOldVersions(identified) ==
    [i \in DOMAIN identified |->
        [identified[i] EXCEPT !.value =
            [j \in DOMAIN @ |->
                [@[j] EXCEPT !.value =
                    SubSeq(@, 1, Len(@) - Len(OldVersions(@)))]]]]

\* One extraction settles.  After the last one the scheduling loop runs, every
\* old version is handed to fs.rm, and removeOldVersions waits for the removals
\* or, with nothing to remove, returns to main(), which saves the cache.
ExtractNext ==
    /\ UNCHANGED otherThanPost
    /\ policy = "identity"
    /\ pc = "extract"
    /\ LET identified == GroupPackage(identifiedPackages, disk, packages[idx])
           removals == ScheduledRemovals(identified)
       IN IF idx < Len(packages)
          THEN /\ identifiedPackages' = identified
               /\ idx' = idx + 1
               /\ NoSave
               /\ UNCHANGED <<pc, outcome, thrown, reported, setFailed,
                              remainingPackages, grouped, rmPromises, rmStatus>>
          ELSE /\ identifiedPackages' = PopOldVersions(identified)
               /\ idx' = idx + 1
               /\ remainingPackages' = remainingAfter(packages, removals)
               /\ grouped' = TRUE
               /\ rmPromises' = [i \in DOMAIN removals |-> removals[i].filePath]
               /\ rmStatus' = [i \in DOMAIN removals |-> "pending"]
               /\ IF Len(removals) > 0
                  THEN /\ pc' = "awaitRm"
                       /\ NoSave
                       /\ UNCHANGED <<outcome, thrown, reported, setFailed>>
                  ELSE EnterSaveCache
    /\ UNCHANGED <<policy, disk, onDisk, pass, mainStepSucceeded, saveCacheInput,
                   previousHash, snapshot, packages, totalSize, survivorsBefore>>

\* The scan of the size variant completes: removeOldestPackages pops the
\* oldest archives and hands them to fs.rm; within the budget it returns at
\* once and main() saves the cache when an archive is left.
FindCachedPackagesDone ==
    /\ UNCHANGED otherThanPost
    /\ policy = "size"
    /\ pc = "start"
    /\ \E arrival \in Orderings(onDisk) :
        LET cachedPackages == findCachedPackages(disk, arrival)
            r == removeOldestPackages(cachedPackages)
        IN /\ snapshot' = cachedPackages.packages
           /\ packages' = r.packages
           /\ totalSize' = r.totalSize
           /\ rmPromises' = [i \in DOMAIN r.removed |-> r.removed[i].filePath]
           /\ rmStatus' = [i \in DOMAIN r.removed |-> "pending"]
           /\ IF Len(r.removed) > 0
              THEN /\ pc' = "awaitRm"
                   /\ NoSave
                   /\ UNCHANGED <<outcome, thrown, reported, setFailed>>
              ELSE IF Len(r.packages) > 0
              THEN EnterSaveCache
              ELSE Return("noPackages") /\ NoSave
    /\ grouped' = TRUE
    /\ UNCHANGED <<policy, disk, onDisk, pass, mainStepSucceeded, saveCacheInput,
                   previousHash, idx, identifiedPackages, remainingPackages,
                   survivorsBefore>>

\* One fs.rm succeeds: the file is gone.
RmFulfilled ==
    \E i \in DOMAIN rmStatus :
        /\ UNCHANGED otherThanPost
        /\ pc \in {"awaitRm", "failed"}
        /\ rmStatus[i] = "pending"
        /\ rmStatus' = [rmStatus EXCEPT ![i] = "fulfilled"]
        /\ onDisk' = onDisk \ {rmPromises[i]}
        /\ AfterSettle(rmStatus', i)
        /\ UNCHANGED <<policy, disk, pass, mainStepSucceeded, saveCacheInput,
                       previousHash, snapshot, packages, idx, identifiedPackages,
                       remainingPackages, grouped, rmPromises, survivorsBefore>>

\* One fs.rm fails: the file stays.
RmRejected ==
    \E i \in DOMAIN rmStatus :
        /\ UNCHANGED otherThanPost
        /\ pc \in {"awaitRm", "failed"}
        /\ rmStatus[i] = "pending"
        /\ rmStatus' = [rmStatus EXCEPT ![i] = "rejected"]
        /\ AfterSettle(rmStatus', i)
        /\ UNCHANGED <<policy, disk, onDisk, pass, mainStepSucceeded,
                       saveCacheInput, previousHash, snapshot, packages, idx,
                       identifiedPackages, remainingPackages, grouped, rmPromises,
                       survivorsBefore>>

\* cache.saveCache settles; its failure is logged with core.error and the step
\* still succeeds.
SaveCacheSettled ==
    /\ UNCHANGED otherThanPost
    /\ pc = "awaitSave"
    /\ \E ok \in BOOLEAN : Return(IF ok THEN "saved" ELSE "saveError")
    /\ NoSave
    /\ UNCHANGED <<policy, disk, onDisk, pass, mainStepSucceeded, saveCacheInput,
                   previousHash, snapshot, packages, totalSize, idx,
                   identifiedPackages, remainingPackages, grouped, rmPromises,
                   rmStatus, survivorsBefore>>

\* The post step runs again on the cache the previous run left behind.
RunAgain ==
    /\ UNCHANGED otherThanPost
    /\ pc = "done"
    /\ outcome = "saved"
    /\ pass < MaxPasses
    /\ pass' = pass + 1
    /\ survivorsBefore' = onDisk
    /\ pc' = "start"
    /\ outcome' = ""
    /\ mainStepSucceeded' = "unread"
    /\ saveCacheInput' = "unread"
    /\ previousHash' = NoHash
    /\ cacheKey' = "unread"
    /\ snapshot' = <<>>
    /\ packages' = <<>>
    /\ totalSize' = 0
    /\ idx' = 0
    /\ identifiedPackages' = <<>>
    /\ remainingPackages' = {}
    /\ grouped' = FALSE
    /\ rmPromises' = <<>>
    /\ rmStatus' = <<>>
    /\ saveCacheCalls' = 0
    /\ cacheSaveCalls' = 0
    /\ UNCHANGED <<policy, disk, onDisk, thrown, reported, setFailed>>

Next ==
    \/ PostMain
    \/ FindBinaryPackagesDone
    \/ ExtractNext
    \/ FindCachedPackagesDone
    \/ RmFulfilled
    \/ RmRejected
    \/ SaveCacheSettled
    \/ RunAgain

Spec == Init /\ [][Next]_vars

\* -------------------------------------------- extractBinaryPackageControl
\* The post step before it has done anything.
PostFresh ==
    /\ pass = 1
    /\ pc = "start"
    /\ outcome = ""
    /\ mainStepSucceeded = "unread"
    /\ saveCacheInput = "unread"
    /\ previousHash = NoHash
    /\ cacheKey = "unread"
    /\ snapshot = <<>>
    /\ packages = <<>>
    /\ totalSize = 0
    /\ idx = 0
    /\ identifiedPackages = <<>>
    /\ remainingPackages = {}
    /\ grouped = FALSE
    /\ rmPromises = <<>>
    /\ rmStatus = <<>>
    /\ thrown = ""
    /\ reported = {}
    /\ setFailed = FALSE
    /\ saveCacheCalls = 0
    /\ cacheSaveCalls = 0

\* The post step before it has done anything, on an empty cache.
PostIdle ==
    /\ policy = "identity"
    /\ disk = <<>>
    /\ onDisk = {}
    /\ survivorsBefore = {}
    /\ PostFresh

InitExtract == PostIdle /\ ExtractStart /\ DetectIdle /\ ScanIdle /\ MainIdle

\* An await inside the try block throws: the finally block is next.
ThrowInTry(err, event) ==
    /\ rejection' = err
    /\ ending' = event
    /\ stage' = "finally"

\* A promise that settles again takes the later value.
settleAgain(current, value) == Some(value)

\* resolve(value): a promise settles once.
settle(current, value) == IF current = undefined THEN Some(value) ELSE current

\* The callback of yauzl.open (lines 23-29).  Without a handle the call
\* rejects at once: nothing was opened, and the try block is not entered.
OpenCallback ==
    /\ stage = "open"
    /\ \E opened \in BOOLEAN :
        IF opened
        THEN /\ zipfile' = "open"
             /\ readEntryPending' = TRUE
             /\ stage' = "entry"
             /\ UNCHANGED <<rejection, promise, ending>>
        ELSE /\ rejection' = Failure("Failed to open zip file")
             /\ promise' = "rejected"
             /\ ending' = "openFailed"
             /\ stage' = "settled"
             /\ UNCHANGED <<zipfile, readEntryPending>>
    /\ UNCHANGED <<entriesRead, stream, rlClosed, linesRead, packageName,
                   architecture, resolved>>
    /\ UNCHANGED otherThanExtract

\* The 'entry' listener (lines 35-41): the CONTROL entry resolves the promise
\* of line 33, any other entry asks for the next one.
EntryEvent ==
    /\ stage = "entry"
    /\ readEntryPending
    /\ Len(entriesRead) < MaxEntries
    /\ \E fileName \in EntryNames :
        /\ entriesRead' = Append(entriesRead, fileName)
        /\ IF isControlEntry(fileName)
           THEN /\ readEntryPending' = FALSE
                /\ stage' = "openReadStream"
           ELSE /\ readEntryPending' = TRUE
                /\ stage' = stage
    /\ UNCHANGED <<zipfile, stream, rlClosed, linesRead, packageName,
                   architecture, resolved, rejection, promise, ending>>
    /\ UNCHANGED otherThanExtract

\* The 'end' listener (lines 42-44): the entry list is exhausted.
ZipEndEvent ==
    /\ stage = "entry"
    /\ readEntryPending
    /\ readEntryPending' = FALSE
    /\ ThrowInTry(Failure("Reached end of zip file before finding CONTROL entry"),
                  "entriesEnd")
    /\ UNCHANGED <<zipfile, entriesRead, stream, rlClosed, linesRead,
                   packageName, architecture, resolved, promise>>
    /\ UNCHANGED otherThanExtract

\* The 'error' listener (lines 45-47): the central directory is corrupt.
ZipErrorEvent ==
    /\ stage = "entry"
    /\ readEntryPending
    /\ readEntryPending' = FALSE
    /\ ThrowInTry(Failure("zipfile error"), "zipError")
    /\ UNCHANGED <<zipfile, entriesRead, stream, rlClosed, linesRead,
                   packageName, architecture, resolved, promise>>
    /\ UNCHANGED otherThanExtract

\* The callback of zipfile.openReadStream (lines 51-57).
OpenReadStreamCallback ==
    /\ stage = "openReadStream"
    /\ \E opened \in BOOLEAN :
        IF opened
        THEN /\ stream' = "flowing"
             /\ stage' = "lines"
             /\ UNCHANGED <<rejection, ending>>
        ELSE /\ ThrowInTry(Failure("openReadStream error"), "streamOpenFailed")
             /\ UNCHANGED stream
    /\ UNCHANGED <<zipfile, readEntryPending, entriesRead, rlClosed, linesRead,
                   packageName, architecture, resolved, promise>>
    /\ UNCHANGED otherThanExtract

\* The 'line' listener (lines 65-83) runs on the next line.  rl.close() does
\* not hold back the lines the reader has already split off, so the listener
\* can run again after the stream was destroyed.
LineEvent ==
    /\ stream \in {"flowing", "destroyed"}
    /\ Len(linesRead) < MaxLines
    /\ \E line \in ControlLines :
        LET after == onLine(packageName, architecture, line) IN
        /\ linesRead' = Append(linesRead, line)
        /\ packageName' = after.packageName
        /\ architecture' = after.architecture
        /\ IF bothFound(after.packageName, after.architecture, line)
           THEN /\ rlClosed' = TRUE
                /\ stream' = "destroyed"
                /\ resolved' = settle(resolved,
                                      [packageName |-> after.packageName[1],
                                       architecture |-> after.architecture[1]])
                /\ stage' = IF stage = "lines" THEN "finally" ELSE stage
           ELSE UNCHANGED <<rlClosed, stream, resolved, stage>>
    /\ UNCHANGED <<zipfile, readEntryPending, entriesRead, rejection, promise,
                   ending>>
    /\ UNCHANGED otherThanExtract

\* The 'end' listener (lines 84-93): the entry was read to its end.  The
\* reader, which listens to 'end' first, has emitted the last line and closed.
StreamEndEvent ==
    /\ stage = "lines"
    /\ stream = "flowing"
    /\ stream' = "ended"
    /\ rlClosed' = TRUE
    /\ ThrowInTry(MissingKeys(notFound(packageName, architecture)), "streamEnd")
    /\ UNCHANGED <<zipfile, readEntryPending, entriesRead, linesRead,
                   packageName, architecture, resolved, promise>>
    /\ UNCHANGED otherThanExtract

\* The entry's stream emits 'error' (corrupt or short compressed data) while
\* the lines are read.  The call listens to 'line' and 'end' only: the event
\* is an uncaught exception of the process, and the promise of line 60 is
\* settled by no one.
StreamErrorEvent ==
    /\ stage = "lines"
    /\ stream = "flowing"
    /\ stream' = "errored"
    /\ ending' = "streamError"
    /\ stage' = "uncaught"
    /\ UNCHANGED <<zipfile, readEntryPending, entriesRead, rlClosed, linesRead,
                   packageName, architecture, resolved, rejection, promise>>
    /\ UNCHANGED otherThanExtract

\* The call settles and leaves the handle as it is.
FinallyWithoutClose ==
    /\ stage = "finally"
    /\ promise' = IF rejection = NoError THEN "fulfilled" ELSE "rejected"
    /\ stage' = "settled"
    /\ UNCHANGED <<zipfile, readEntryPending, entriesRead, stream, rlClosed,
                   linesRead, packageName, architecture, resolved, rejection,
                   ending>>
    /\ UNCHANGED otherThanExtract

\* The finally block (lines 96-98) closes the handle, then the call settles:
\* it returns `control` (line 95) or rethrows.
FinallyClose ==
    /\ stage = "finally"
    /\ zipfile' = "closed"
    /\ promise' = IF rejection = NoError THEN "fulfilled" ELSE "rejected"
    /\ stage' = "settled"
    /\ UNCHANGED <<readEntryPending, entriesRead, stream, rlClosed, linesRead,
                   packageName, architecture, resolved, rejection, ending>>
    /\ UNCHANGED otherThanExtract

NextExtract ==
    \/ OpenCallback
    \/ EntryEvent
    \/ ZipEndEvent
    \/ ZipErrorEvent
    \/ OpenReadStreamCallback
    \/ LineEvent
    \/ StreamEndEvent
    \/ StreamErrorEvent
    \/ FinallyClose

SpecExtract == InitExtract /\ [][NextExtract]_vars

\* The event loop delivers every event that is due, and the finally block
\* runs as soon as an await has thrown or returned.
FairSpecExtract == SpecExtract /\ WF_vars(NextExtract)


\* ------------------------------------------------------------ properties
\* The byte budget the specification configures: 3 GiB.
ByteBudget == 3 * GiB

Scheduled == Range(rmPromises)

Rejected == {rmPromises[i] : i \in {j \in DOMAIN rmStatus : rmStatus[j] = "rejected"}}

AllRemoved == \A i \in DOMAIN rmStatus : rmStatus[i] = "fulfilled"

\* The archives of the snapshot whose CONTROL entry yields identity id.
GroupOf(id) == {f \in Paths(snapshot) : disk[f].meta = id}

DistinctTimes(G) == \A f, g \in G : f # g => disk[f].mtime # disk[g].mtime

IsIdentified(p) == disk[p.filePath].meta.kind = "ok"

Grouped(identified) ==
    LET lists == GroupLists(identified)
    IN UNION {Paths(lists[i]) : i \in DOMAIN lists}

\* C1: once identity-based retention has scheduled its removals, every
\* (name, architecture) group whose archives have pairwise distinct
\* modification times keeps exactly one archive, the one modified last.
NewestWins ==
    (policy = "identity" /\ grouped) =>
        \A id \in Identities :
            (GroupOf(id) # {} /\ DistinctTimes(GroupOf(id))) =>
                \E f \in GroupOf(id) :
                    /\ GroupOf(id) \ Scheduled = {f}
                    /\ \A g \in GroupOf(id) : disk[g].mtime <= disk[f].mtime

NewestWinsWitness ==
    /\ policy = "identity"
    /\ grouped
    /\ \E id \in Identities :
        /\ Cardinality(GroupOf(id)) = 3
        /\ DistinctTimes(GroupOf(id))
        /\ Cardinality(GroupOf(id) \cap Scheduled) = 2

\* C2: after a size-based pass whose removals all succeeded, the archives left
\* on disk are those of the returned array and their sizes add up to at most
\* maximumCacheSize.
SizeWithinBudget ==
    (policy = "size" /\ grouped /\ AllRemoved) =>
        /\ onDisk = Paths(packages)
        /\ SumDisk(disk, onDisk) <= maximumCacheSize

SizeWithinBudgetWitness ==
    /\ policy = "size"
    /\ grouped
    /\ AllRemoved
    /\ Len(rmPromises) = 2
    /\ SumSizes(snapshot) > maximumCacheSize
    /\ onDisk # {}

\* C3: when the snapshot already fits the byte budget, size-based retention
\* hands nothing to fs.rm and returns the scanned archives in the scanned order.
WithinBudgetUntouched ==
    (policy = "size" /\ grouped /\ SumSizes(snapshot) <= ByteBudget) =>
        /\ rmPromises = <<>>
        /\ packages = snapshot
        /\ onDisk = Paths(snapshot)

WithinBudgetUntouchedWitness ==
    /\ policy = "size"
    /\ grouped
    /\ Len(snapshot) = 3
    /\ SumSizes(snapshot) = ByteBudget
    /\ pc = "done"

FailedRemovalFailsPass ==
    Rejected # {} =>
        /\ pc = "failed"
        /\ thrown = "rm"
        /\ setFailed
        /\ saveCacheCalls = 0
        /\ cacheSaveCalls = 0

FailedRemovalFailsPassWitness ==
    /\ policy = "identity"
    /\ Rejected # {}
    /\ \E i \in DOMAIN rmStatus : rmStatus[i] = "fulfilled"
    /\ \A i \in DOMAIN rmStatus : rmStatus[i] # "pending"
    /\ setFailed

\* C7: an archive whose extraction failed is in no list, is not handed to
\* fs.rm and stays in remainingPackages; the removals are those the pass would
\* schedule with the failed archives absent; the pass fails only on a rejected
\* removal or a missing cache key.
FailedExtractionIsolated ==
    policy = "identity" =>
        /\ pc = "extract" => thrown = ""
        /\ thrown = "rm" => Rejected # {}
        /\ thrown = "cacheKey" => cacheKey = ""
        /\ thrown \in {"", "rm", "cacheKey"}
        /\ \A p \in Range(snapshot) :
            ~IsIdentified(p) => p.filePath \notin Grouped(identifiedPackages)
        /\ grouped =>
            /\ \A p \in Range(snapshot) :
                ~IsIdentified(p) =>
                    p.filePath \notin Scheduled /\ p.filePath \in remainingPackages
            /\ rmPromises =
                LET removals ==
                        ScheduledRemovals(IdentifyAll(disk, SelectSeq(snapshot, IsIdentified)))
                IN [i \in DOMAIN removals |-> removals[i].filePath]

FailedExtractionIsolatedWitness ==
    /\ policy = "identity"
    /\ grouped
    /\ pc = "done"
    /\ outcome = "saved"
    /\ rmPromises # <<>>
    /\ \E i \in DOMAIN snapshot :
        ~IsIdentified(snapshot[i]) /\ i < Len(snapshot) /\ i > 1

\* C8: after an identity-based pass whose removals all succeeded, every
\* identity carried by an archive of the snapshot is carried by exactly one
\* archive on disk.
OneSurvivorPerIdentity ==
    (policy = "identity" /\ grouped /\ AllRemoved) =>
        \A id \in Identities :
            GroupOf(id) # {} =>
                Cardinality({f \in onDisk : disk[f].meta = id}) = 1

OneSurvivorPerIdentityWitness ==
    /\ policy = "identity"
    /\ grouped
    /\ AllRemoved
    /\ rmPromises # <<>>
    /\ pass = 1
    /\ Cardinality({id \in Identities : GroupOf(id) # {}}) = 2

\* C9: an identity-based pass run on what a successful pass left behind hands
\* nothing to fs.rm and keeps every archive.
SecondPassIsNoOp ==
    (policy = "identity" /\ pass >= 2) =>
        /\ rmPromises = <<>>
        /\ onDisk = survivorsBefore
        /\ grouped => remainingPackages = survivorsBefore

SecondPassIsNoOpWitness ==
    /\ policy = "identity"
    /\ pass = 2
    /\ grouped
    /\ survivorsBefore # DOMAIN disk
    /\ survivorsBefore # {}

\* The pass runs on the five archives of scenario B.
InScenarioB == policy = "size" /\ disk = ScenarioB /\ survivorsBefore = DOMAIN disk

\* C10 as stated: in scenario B the three oldest archives are removed and the
\* two newest stay, 2 GiB in all.
ScenarioBKeepsTwo ==
    (InScenarioB /\ grouped /\ AllRemoved) =>
        /\ Scheduled = {1, 2, 3}
        /\ onDisk = {4, 5}
        /\ SumDisk(disk, onDisk) = 2 * GiB

\* C10 amended: in scenario B (five archives of 1 GiB, budget 3 GiB) the two
\* oldest archives are removed, oldest first, and the three newest stay,
\* 3 GiB in all.
ScenarioBKeepsThree ==
    (InScenarioB /\ grouped /\ AllRemoved) =>
        /\ rmPromises = <<1, 2>>
        /\ onDisk = {3, 4, 5}
        /\ [i \in DOMAIN packages |-> packages[i].filePath] = <<5, 4, 3>>
        /\ totalSize = 3 * GiB
        /\ SumDisk(disk, onDisk) = 3 * GiB

ScenarioBWitness ==
    /\ InScenarioB
    /\ grouped
    /\ AllRemoved
    /\ pc = "done"
    /\ outcome = "saved"

\* ------------------------------------------- properties of the extractor
HasSeparator(line) == \E i \in DOMAIN line : line[i] = ":"

FirstColon(line) ==
    CHOOSE i \in DOMAIN line : line[i] = ":" /\ \A j \in 1..(i - 1) : line[j] # ":"

\* A text without the blanks at its two ends.
RECURSIVE Stripped(_)
Stripped(s) ==
    IF s # <<>> /\ Head(s) = " " THEN Stripped(Tail(s))
    ELSE IF s # <<>> /\ Last(s) = " " THEN Stripped(Front(s))
    ELSE s

\* The key and the value a line with a colon carries.
LineKey(line) == Stripped(SubSeq(line, 1, FirstColon(line) - 1))

LineValue(line) == Stripped(SubSeq(line, FirstColon(line) + 1, Len(line)))

\* The line supplies the required key k.
Supplies(line, k) == HasSeparator(line) /\ LineKey(line) = k

Observed(lines, k) == \E i \in DOMAIN lines : Supplies(lines[i], k)

RequiredKeys == {packageNameKey, architectureKey}

\* The number of the line that supplies the second of the two required
\* keys, 0 while one of them has not been observed.
CompleteAt(lines) ==
    IF \A k \in RequiredKeys : Observed(lines, k)
    THEN CHOOSE n \in DOMAIN lines :
             /\ \A k \in RequiredKeys : Observed(SubSeq(lines, 1, n), k)
             /\ \E k \in RequiredKeys : ~Observed(SubSeq(lines, 1, n - 1), k)
    ELSE 0

\* The value the first n lines leave for key k: that of the last line that
\* supplies it.
ValueBy(lines, n, k) ==
    LineValue(lines[CHOOSE i \in 1..n :
                        /\ Supplies(lines[i], k)
                        /\ \A j \in (i + 1)..n : ~Supplies(lines[j], k)])

\* C11: once the lines read supply both required keys, the promise of line 60
\* has resolved with the values the lines up to the one that supplied the
\* second key carry, the line reader is closed and the stream destroyed; the
\* lines delivered afterwards, or their absence, change nothing of it, and the
\* call is fulfilled.
ShortCircuit ==
    LET n == CompleteAt(linesRead) IN
    n > 0 =>
        /\ resolved = Some([packageName |-> ValueBy(linesRead, n, packageNameKey),
                            architecture |-> ValueBy(linesRead, n, architectureKey)])
        /\ rlClosed
        /\ stream = "destroyed"
        /\ stage \in {"finally", "settled"}
        /\ stage = "settled" => promise = "fulfilled" /\ rejection = NoError

\* The call is fulfilled and a line delivered after the second key carried
\* another package name than the one returned.
ShortCircuitWitness ==
    LET n == CompleteAt(linesRead) IN
    /\ n > 0
    /\ promise = "fulfilled"
    /\ \E i \in (n + 1)..Len(linesRead) :
          /\ Supplies(linesRead[i], packageNameKey)
          /\ LineValue(linesRead[i]) # resolved[1].packageName

\* The required keys no line read so far supplies.
Absent(lines) == {k \in RequiredKeys : ~Observed(lines, k)}

\* C12: when the CONTROL entry was read to its end, a required key was never
\* observed, nothing was resolved, and the call fails with an error that names
\* each absent key once and no key that was observed.
MissingKeysNamed ==
    ending = "streamEnd" =>
        /\ Absent(linesRead) # {}
        /\ resolved = undefined
        /\ rejection.message = "doesn't contain required keys"
        /\ {<<rejection.keys[i]>> : i \in DOMAIN rejection.keys} = Absent(linesRead)
        /\ Len(rejection.keys) = Cardinality(Absent(linesRead))
        /\ stage \in {"finally", "settled"}
        /\ stage = "settled" => promise = "rejected"

\* The call has failed at the end of an entry that supplies one of the two
\* keys, with an empty value.
MissingKeysNamedWitness ==
    /\ ending = "streamEnd"
    /\ promise = "rejected"
    /\ Cardinality(Absent(linesRead)) = 1
    /\ \E i \in DOMAIN linesRead :
          /\ Supplies(linesRead[i], packageNameKey)
          /\ LineValue(linesRead[i]) = <<>>

\* C13: when the entry list ended and no entry was named exactly CONTROL, the
\* call fails and resolves no identity; while entries are enumerated every
\* entry seen so far had another name and the next one has been asked for, and
\* a stream is only ever opened on an entry named exactly CONTROL.
ControlNotFound ==
    /\ ending = "entriesEnd" =>
          /\ controlFileName \notin Range(entriesRead)
          /\ resolved = undefined
          /\ stream = "none"
          /\ rejection = Failure("Reached end of zip file before finding CONTROL entry")
          /\ stage \in {"finally", "settled"}
          /\ stage = "settled" => promise = "rejected"
    /\ stage = "entry" =>
          /\ controlFileName \notin Range(entriesRead)
          /\ readEntryPending
    /\ stage \in {"openReadStream", "lines"} \/ stream # "none" =>
          /\ entriesRead # <<>>
          /\ Last(entriesRead) = controlFileName
          /\ controlFileName \notin Range(Front(entriesRead))

\* The call has failed at the end of a list of two entries, one of them named
\* in small letters.
ControlNotFoundWitness ==
    /\ ending = "entriesEnd"
    /\ promise = "rejected"
    /\ Len(entriesRead) = 2
    /\ "control" \in Range(entriesRead)

\* The events by which a container fails.
ContainerFailures == {"openFailed", "zipError", "streamOpenFailed", "streamError"}

\* C14: whatever the stage at which the container fails (opening the zip, an
\* 'error' while the entries are enumerated, opening the entry's stream, an
\* 'error' of the stream while its lines are read), the returned promise
\* eventually rejects.
ContainerFailureRejects == (ending \in ContainerFailures) ~> (promise = "rejected")

\* The failures before the first line is read do reject the call.
EarlyFailureRejects ==
    (ending \in ContainerFailures \ {"streamError"}) ~> (promise = "rejected")

\* The ways a call that opened a container leaves the try block.
ExitPaths == {"", "entriesEnd", "zipError", "streamOpenFailed", "streamEnd"}

\* C15: once the call has settled, a container it opened is closed, whether
\* it returned the identity, found no CONTROL entry, met a zip error, could not
\* open the entry's stream or missed a key; and it settles only through the
\* block that closes the handle.
HandleClosed ==
    /\ zipfile # "none" /\ promise # "pending" => zipfile = "closed"
    /\ zipfile # "none" /\ stage = "settled" => ending \in ExitPaths /\ promise # "pending"
    /\ zipfile = "none" => stage \in {"open", "settled"} /\ ending \in {"", "openFailed"}

\* A call that opened the container has returned the identity.
HandleClosedWitness ==
    /\ promise = "fulfilled"
    /\ zipfile = "closed"
    /\ ending = ""
    /\ resolved # undefined

\* C16: the listener run on a line records the trimmed text after the first
\* colon as the package name when the trimmed text before it is exactly
\* Package, as the architecture when it is exactly Architecture, and leaves
\* both as they were for a line without a colon or with any other key.
LineParsing ==
    [][linesRead' # linesRead =>
          LET line == Last(linesRead') IN
          /\ packageName' = IF Supplies(line, packageNameKey)
                            THEN Some(LineValue(line)) ELSE packageName
          /\ architecture' = IF Supplies(line, architectureKey)
                             THEN Some(LineValue(line)) ELSE architecture]_vars

\* A line with a second colon gave the architecture, and a line whose key is
\* written in small letters, a line with blanks around its key and a line
\* without a colon have been read.
LineParsingWitness ==
    /\ architecture = Some(<<"arm64", ":", "static">>)
    /\ packageName = undefined
    /\ <<"package", ":", " ", "libbar">> \in Range(linesRead)
    /\ <<"libfoo", " ", "x64">> \in Range(linesRead)

\* The blanks around a key and a value are dropped.
LineParsingTrimWitness ==
    /\ packageName = Some(<<"libbar">>)
    /\ Last(linesRead) = <<" ", "Package", " ", ":", "libbar", " ">>

\* ------------------------------------- the cache between the two steps
\* The main step starts on a cache of up to MaxCached archives.
InitDetect ==
    /\ PostIdle
    /\ ExtractStart
    /\ ScanIdle
    /\ MainIdle
    /\ phase = "main"
    /\ \E S \in SUBSET DetectPaths :
          /\ Cardinality(S) <= MaxCached
          /\ cache \in [S -> ArchiveAttrs]
    /\ recorded = NoHash
    /\ recordedFrom = <<>>
    /\ replacement = <<>>
    /\ scanned = <<>>
    /\ scannedAfter = <<>>
    /\ detected = ""
    /\ restored = ""

\* restoreCache of the main step: on a cache hit the hash of the newest
\* archive is saved to the state; without an archive, on a cache miss or when
\* restoring throws, nothing is saved.
RestoreCache ==
    /\ phase = "main"
    /\ \E hitKey \in {"hit", "miss", "error"}, arrival \in Orderings(DOMAIN cache) :
        LET latestBinaryPackage == at(findBinaryPackages(cache, arrival), 0).value IN
        /\ restored' = hitKey
        /\ IF hitKey = "hit" /\ latestBinaryPackage # <<>>
           THEN /\ recorded' = computeHashOfBinaryPackage(latestBinaryPackage[1])
                /\ recordedFrom' = latestBinaryPackage
           ELSE UNCHANGED <<recorded, recordedFrom>>
    /\ phase' = "build"
    /\ UNCHANGED <<cache, replacement, scanned, scannedAfter, detected>>
    /\ UNCHANGED otherThanDetect

\* The build replaces one archive by another one: the path, the size or the
\* modification time differs, the number of archives does not.
ArchiveReplaced ==
    /\ phase = "build"
    /\ \E old \in DOMAIN cache, new \in DetectPaths, attrs \in ArchiveAttrs :
        /\ new \notin DOMAIN cache \ {old}
        /\ new # old \/ attrs # cache[old]
        /\ cache' = [q \in (DOMAIN cache \ {old}) \cup {new} |->
                        IF q = new THEN attrs ELSE cache[q]]
        /\ replacement' = <<[old |-> statPackage(cache, old),
                             new |-> [filePath |-> new, size |-> attrs.size,
                                      mtime |-> attrs.mtime]]>>
    /\ phase' = "post"
    /\ UNCHANGED <<recorded, recordedFrom, scanned, scannedAfter, detected, restored>>
    /\ UNCHANGED otherThanDetect

\* The build writes one more archive.
ArchiveAdded ==
    /\ phase = "build"
    /\ \E new \in DetectPaths \ DOMAIN cache, attrs \in ArchiveAttrs :
        cache' = [q \in DOMAIN cache \cup {new} |->
                     IF q = new THEN attrs ELSE cache[q]]
    /\ phase' = "post"
    /\ UNCHANGED <<recorded, recordedFrom, replacement, scanned, scannedAfter,
                   detected, restored>>
    /\ UNCHANGED otherThanDetect

\* The build finds every package in the cache and writes nothing.
NothingBuilt ==
    /\ phase = "build"
    /\ phase' = "post"
    /\ UNCHANGED <<cache, recorded, recordedFrom, replacement, scanned,
                   scannedAfter, detected, restored>>
    /\ UNCHANGED otherThanDetect

\* main() of the post step from the scan to the change detector
\* (post.ts lines 118-126).
DetectChange ==
    /\ phase = "post"
    /\ \E arrival \in Orderings(DOMAIN cache) :
        LET pkgs == findBinaryPackages(cache, arrival) IN
        /\ scanned' = pkgs
        /\ IF Len(pkgs) = 0
           THEN /\ detected' = "noPackages"
                /\ scannedAfter' = pkgs
           ELSE /\ detected' = IF didLatestPackageChange(pkgs, recorded)
                               THEN "changed" ELSE "unchanged"
                /\ scannedAfter' = at(pkgs, 0).array
    /\ phase' = "done"
    /\ UNCHANGED <<cache, recorded, recordedFrom, replacement, restored>>
    /\ UNCHANGED otherThanDetect

NextDetect ==
    \/ RestoreCache
    \/ ArchiveReplaced
    \/ ArchiveAdded
    \/ NothingBuilt
    \/ DetectChange

SpecDetect == InitDetect /\ [][NextDetect]_vars

\* ----------------------------------- properties of the change detector
\* The detector has run on a snapshot that is not empty.
Decided == detected \in {"changed", "unchanged"}

\* C17: didLatestPackageChange answers false when the hash of the first
\* archive of the snapshot is the recorded one and true in every other case,
\* among them that of no recorded hash, and the snapshot is afterwards what
\* it was, element by element.
DetectorComparesLatest ==
    Decided =>
        /\ detected = "unchanged" <=> computeHashOfBinaryPackage(scanned[1]) = recorded
        /\ detected = "changed" <=> computeHashOfBinaryPackage(scanned[1]) # recorded
        /\ scannedAfter = scanned
        /\ \A i \in 1..(Len(scanned) - 1) : scanned[i].mtime >= scanned[i + 1].mtime

\* The detector answered false on a snapshot of two archives of different age.
DetectorComparesLatestWitness ==
    /\ detected = "unchanged"
    /\ Len(scanned) = 2
    /\ scanned[1].mtime > scanned[2].mtime
    /\ scannedAfter = scanned

\* The main step saved a hash, the build replaced one archive by another one,
\* and the detector has run.
ReplacedSinceRecorded == Decided /\ recorded # NoHash /\ replacement # <<>>

OlderReplacementMissed ==
    /\ ReplacedSinceRecorded
    /\ replacement[1].old # recordedFrom[1]
    /\ replacement[1].new.mtime < recordedFrom[1].mtime
    /\ detected = "unchanged"

\* The recorded archive was rewritten under its path with another size and
\* another modification time, and the detector reported 'unchanged'.
RewriteMissed ==
    /\ ReplacedSinceRecorded
    /\ replacement[1].old = recordedFrom[1]
    /\ replacement[1].new.mtime # replacement[1].old.mtime
    /\ detected = "unchanged"

\* --------------------------------------------------- findBinaryPackages
\* Every archive holds the same package; an archive is 1 GiB.
ScanDisk(t) ==
    [i \in DOMAIN t |->
        [size |-> GiB, mtime |-> t[i].mtime,
         meta |-> [kind |-> "ok", packageName |-> "libfoo", architecture |-> "x64"]]]

\* The post step starts on a cache root that holds up to MaxDirents entries.
InitScan ==
    /\ ExtractStart
    /\ DetectIdle
    /\ MainIdle
    /\ \E n \in 0..MaxDirents :
          \E entries \in [1..n -> Dirents], parents \in [1..n -> 0..(n - 1)] :
              /\ DepthFirst([i \in 1..n |-> entries[i].kind], parents)
              /\ tree = [i \in 1..n |->
                            [parent |-> parents[i], kind |-> entries[i].kind,
                             name |-> entries[i].name, mtime |-> entries[i].mtime]]
    /\ walk = "idle"
    /\ dirStack = <<>>
    /\ visited = 0
    /\ statPromises = <<>>
    /\ statStatus = <<>>
    /\ pushed = <<>>
    /\ scanFailure = ""
    /\ policy = "identity"
    /\ disk = ScanDisk(tree)
    /\ onDisk = {i \in DOMAIN tree : tree[i].kind = "file"}
    /\ survivorsBefore = onDisk
    /\ PostFresh

\* What main() holds while findBinaryPackages has not returned.
mainWaits ==
    UNCHANGED <<pc, outcome, thrown, reported, setFailed, snapshot, packages,
                previousHash, idx, cacheKey, saveCacheCalls, cacheSaveCalls>>

\* findBinaryPackages rejects: the error leaves main() and reaches runMain.
ScanRejects ==
    /\ walk' = "rejected"
    /\ Throw("scan", {})
    /\ NoSave
    /\ UNCHANGED <<snapshot, packages, previousHash, idx>>

\* What no step of the scan writes.
scanKeeps ==
    <<policy, disk, onDisk, pass, mainStepSucceeded, saveCacheInput, totalSize,
      identifiedPackages, remainingPackages, grouped, rmPromises, rmStatus,
      survivorsBefore, tree>>

\* The entries of directory d its iterator has not yielded yet.
Unread(d) == {i \in DOMAIN tree : i > visited /\ tree[i].parent = d}

\* findBinaryPackages is called and opens the cache root (lines 134, 108).
OpenRoot ==
    /\ pc = "scan"
    /\ walk = "idle"
    /\ \E opened \in BOOLEAN :
        IF opened
        THEN /\ walk' = "walking"
             /\ dirStack' = <<0>>
             /\ mainWaits
             /\ UNCHANGED scanFailure
        ELSE /\ scanFailure' = "opendir"
             /\ ScanRejects
             /\ UNCHANGED dirStack
    /\ UNCHANGED <<visited, statPromises, statStatus, pushed>>
    /\ UNCHANGED scanKeeps
    /\ UNCHANGED otherThanScan

\* The walk is over: findBinaryPackages awaits Promise.all(statPromises)
\* (line 139) and, when every stat is done, sorts and returns (lines 142-146).
AwaitStats(status, found) ==
    IF PromiseAll(status) = "fulfilled"
    THEN /\ walk' = "returned"
         /\ AfterScan(SortPackages(found))
    ELSE /\ walk' = "awaitStats"
         /\ mainWaits

\* One turn of `for await (const dirent of dir)` (lines 109-115): a directory
\* is opened and walked before the next entry is read, a regular file with
\* the extension is handed to statPackage, anything else is passed over.
ReadDirent ==
    /\ walk = "walking"
    /\ Unread(Last(dirStack)) # {}
    /\ LET i == CHOOSE c \in Unread(Last(dirStack)) :
                    \A o \in Unread(Last(dirStack)) : c <= o
       IN /\ visited' = i
          /\ IF tree[i].kind = "dir"
             THEN /\ UNCHANGED <<statPromises, statStatus>>
                  /\ \E opened \in BOOLEAN :
                      IF opened
                      THEN /\ dirStack' = Append(dirStack, i)
                           /\ mainWaits
                           /\ UNCHANGED <<walk, scanFailure>>
                      ELSE /\ scanFailure' = "opendir"
                           /\ ScanRejects
                           /\ UNCHANGED dirStack
             ELSE /\ IF tree[i].kind = "file" /\ isZipFile(tree[i].name)
                     THEN /\ statPromises' = Append(statPromises, i)
                          /\ statStatus' = Append(statStatus, "pending")
                     ELSE UNCHANGED <<statPromises, statStatus>>
                  /\ mainWaits
                  /\ UNCHANGED <<walk, dirStack, scanFailure>>
    /\ UNCHANGED pushed
    /\ UNCHANGED scanKeeps
    /\ UNCHANGED otherThanScan

\* The iterator of the innermost directory is exhausted: the call for that
\* directory returns; after the cache root the walk is over.
DirExhausted ==
    /\ walk = "walking"
    /\ Unread(Last(dirStack)) = {}
    /\ dirStack' = Front(dirStack)
    /\ IF Len(dirStack) = 1
       THEN AwaitStats(statStatus, pushed)
       ELSE /\ mainWaits
            /\ UNCHANGED walk
    /\ UNCHANGED <<visited, statPromises, statStatus, pushed, scanFailure>>
    /\ UNCHANGED scanKeeps
    /\ UNCHANGED otherThanScan

\* One fs.stat succeeds (lines 130-131): the archive is pushed.
StatFulfilled ==
    /\ walk \in {"walking", "awaitStats"}
    /\ \E k \in DOMAIN statStatus :
        /\ statStatus[k] = "pending"
        /\ statStatus' = [statStatus EXCEPT ![k] = "fulfilled"]
        /\ pushed' = Append(pushed, statPackage(disk, statPromises[k]))
        /\ IF walk = "awaitStats"
           THEN AwaitStats(statStatus', pushed')
           ELSE /\ mainWaits
                /\ UNCHANGED walk
    /\ UNCHANGED <<dirStack, visited, statPromises, scanFailure>>
    /\ UNCHANGED scanKeeps
    /\ UNCHANGED otherThanScan

\* A stat that fails is passed over.
StatSkipped ==
    /\ walk \in {"walking", "awaitStats"}
    /\ \E k \in DOMAIN statStatus :
        /\ statStatus[k] = "pending"
        /\ statStatus' = [statStatus EXCEPT ![k] = "fulfilled"]
        /\ scanFailure' = "stat"
        /\ IF walk = "awaitStats"
           THEN AwaitStats(statStatus', pushed)
           ELSE /\ mainWaits
                /\ UNCHANGED walk
    /\ UNCHANGED <<dirStack, visited, statPromises, pushed>>
    /\ UNCHANGED scanKeeps
    /\ UNCHANGED otherThanScan

\* One fs.stat fails.  Under Promise.all the scan rejects at once.  During the
\* walk nothing listens to the promise yet: the rejection is unhandled and
\* ends the process.
StatRejected ==
    /\ walk \in {"walking", "awaitStats"}
    /\ \E k \in DOMAIN statStatus :
        /\ statStatus[k] = "pending"
        /\ statStatus' = [statStatus EXCEPT ![k] = "rejected"]
    /\ scanFailure' = "stat"
    /\ IF walk = "awaitStats"
       THEN ScanRejects
       ELSE /\ walk' = "crashed"
            /\ pc' = "crashed"
            /\ UNCHANGED <<outcome, thrown, reported, setFailed, snapshot,
                           packages, previousHash, idx, cacheKey, saveCacheCalls,
                           cacheSaveCalls>>
    /\ UNCHANGED <<dirStack, visited, statPromises, pushed>>
    /\ UNCHANGED scanKeeps
    /\ UNCHANGED otherThanScan

NextScan ==
    \/ PostMain
    \/ OpenRoot
    \/ ReadDirent
    \/ DirExhausted
    \/ StatFulfilled
    \/ StatRejected
    \/ ExtractNext
    \/ RmFulfilled
    \/ RmRejected
    \/ SaveCacheSettled

SpecScan == InitScan /\ [][NextScan]_vars

\* ------------------------------------------- properties of the scanner
\* The regular files under the cache root, at any depth, whose name has .zip
\* as its last piece.
ArchivesInTree ==
    {i \in DOMAIN tree :
        /\ tree[i].kind = "file"
        /\ tree[i].name # <<>>
        /\ tree[i].name[Len(tree[i].name)] = ".zip"}

\* C19: the array findBinaryPackages returns holds one Archive, with the
\* file's size and modification time, for each regular file under the cache
\* root whose name ends in .zip, and nothing else: no file of another name,
\* no directory, no other kind of entry.
ScanExhaustive ==
    walk = "returned" =>
        /\ Paths(snapshot) = ArchivesInTree
        /\ Len(snapshot) = Cardinality(ArchivesInTree)
        /\ \A k \in DOMAIN snapshot :
              /\ snapshot[k].mtime = tree[snapshot[k].filePath].mtime
              /\ snapshot[k].size = disk[snapshot[k].filePath].size

\* The scan returned an archive found inside a directory, and passed over a
\* file whose extension is written in capital letters.
ScanExhaustiveWitness ==
    /\ walk = "returned"
    /\ \E i \in Paths(snapshot) : tree[i].parent # 0
    /\ \E j \in DOMAIN tree :
          tree[j].kind = "file" /\ tree[j].name = <<"x", ".ZIP">>

\* C20: once an opendir or a stat has failed, findBinaryPackages has returned
\* no array and never does; main() holds no snapshot, no archive was grouped,
\* handed to fs.rm or deleted, and saveCache was not called.
NoPartialScan ==
    scanFailure # "" =>
        /\ walk \in {"rejected", "crashed"}
        /\ pc \in {"failed", "crashed"}
        /\ walk = "rejected" => thrown = "scan" /\ setFailed
        /\ snapshot = <<>>
        /\ packages = <<>>
        /\ identifiedPackages = <<>>
        /\ ~grouped
        /\ rmPromises = <<>>
        /\ onDisk = survivorsBefore
        /\ saveCacheCalls = 0
        /\ cacheSaveCalls = 0
        /\ outcome = ""

\* A stat failed after another one had succeeded and pushed its archive, and
\* the scan was rejected.
NoPartialScanWitness ==
    /\ scanFailure = "stat"
    /\ walk = "rejected"
    /\ pushed # <<>>
    /\ setFailed

\* An opendir of a directory below the cache root failed while a stat was
\* still under way.
NoPartialScanOpendirWitness ==
    /\ scanFailure = "opendir"
    /\ visited > 0
    /\ \E k \in DOMAIN statStatus : statStatus[k] = "pending"

\* ------------------------------------------------ the array handed to a policy
\* Newest first: no archive stands before a newer one.
SortedDescending(s) == \A i, j \in DOMAIN s : i < j => s[i].mtime >= s[j].mtime

\* C21 as stated: once a policy has scheduled its removals, the array it was
\* handed holds the archives the scanner returned, in the same order.
SnapshotUnmodified == grouped => packages = snapshot

\* C21 amended: the scanner's array is sorted, newest first, before a policy
\* decides anything.  The identity policy leaves the array as it was handed in.
\* The size policy pops every archive it evicts off that very array: what the
\* array holds afterwards is the snapshot without its tail of evicted archives,
\* the rest in the same order.
SnapshotPrefixKept ==
    grouped =>
        /\ SortedDescending(snapshot)
        /\ policy = "identity" => packages = snapshot
        /\ policy = "size" =>
              /\ packages = SubSeq(snapshot, 1, Len(snapshot) - Len(rmPromises))
              /\ \A i \in DOMAIN rmPromises :
                    rmPromises[i] = snapshot[Len(snapshot) + 1 - i].filePath

SnapshotPrefixKeptWitness ==
    /\ policy = "size"
    /\ grouped
    /\ Len(rmPromises) > 0
    /\ Len(packages) > 0
    /\ Len(packages) < Len(snapshot)

\* The identity policy has scheduled removals and its array is whole.
SnapshotKeptByIdentityWitness ==
    /\ policy = "identity"
    /\ grouped
    /\ Len(rmPromises) > 0
    /\ packages = snapshot

\* ------------------------------------------------------- ties in the scan
\* Two archives handed to statPackage, the one at position a before the one at
\* position b, that carry the same modification time.  Every archive of this
\* cache holds the same package.
Tied(a, b) ==
    /\ a \in DOMAIN statPromises
    /\ b \in DOMAIN statPromises
    /\ a < b
    /\ tree[statPromises[a]].mtime = tree[statPromises[b]].mtime

\* C22: of two archives of one identity group with equal modification times
\* the one the directory walk met later never survives identity-based
\* retention, whatever the order in which the stats completed.
TieBreakByEnumeration ==
    grouped => \A a, b \in DOMAIN statPromises :
                  Tied(a, b) => statPromises[b] \notin remainingPackages

\* The archive met first survived a tie: its stat completed first.
TieWonByFirstEnumerated ==
    /\ grouped
    /\ \E a, b \in DOMAIN statPromises :
          Tied(a, b) /\ statPromises[a] \in remainingPackages

\* The archive met later survived the same tie: its stat completed first.
TieWonByLaterEnumerated ==
    /\ grouped
    /\ \E a, b \in DOMAIN statPromises :
          Tied(a, b) /\ statPromises[b] \in remainingPackages

\* --------------------------------------------------------- the cache key
\* C23: when saveCache() read no cache key from the state store, the post step
\* has failed with the error 'Cache key is not set', core.setFailed was called
\* and cache.saveCache was not.
MissingCacheKeyFatal ==
    cacheKey = "" =>
        /\ pc = "failed"
        /\ thrown = "cacheKey"
        /\ setFailed
        /\ reported = {}
        /\ outcome = ""
        /\ saveCacheCalls = 1
        /\ cacheSaveCalls = 0

\* The key was found missing after the removals of the pass had succeeded.
MissingCacheKeyFatalWitness ==
    /\ cacheKey = ""
    /\ setFailed
    /\ rmPromises # <<>>
    /\ \A i \in DOMAIN rmStatus : rmStatus[i] = "fulfilled"

\* ------------------------------------------------- eviction to the budget
\* The archive at the head of the snapshot is alone larger than the budget.
NewestOverBudget ==
    /\ policy = "size"
    /\ grouped
    /\ snapshot # <<>>
    /\ snapshot[1].size > maximumCacheSize

\* C24: when the newest archive alone is larger than the budget, size-based
\* retention hands every archive of the snapshot to fs.rm and keeps none; once
\* all removals succeeded the step has ended without an error, no archive is
\* left on disk, and saveCache was never called.
NoSoleSurvivor ==
    NewestOverBudget =>
        /\ Range(rmPromises) = Paths(snapshot)
        /\ Len(rmPromises) = Len(snapshot)
        /\ packages = <<>>
        /\ saveCacheCalls = 0
        /\ cacheSaveCalls = 0
        /\ AllRemoved =>
              /\ pc = "done"
              /\ outcome = "emptied"
              /\ onDisk = {}
              /\ thrown = ""
              /\ ~setFailed

\* Several archives, the newest over the budget, were all removed.
NoSoleSurvivorWitness ==
    /\ NewestOverBudget
    /\ Len(snapshot) > 1
    /\ AllRemoved
    /\ outcome = "emptied"
    /\ onDisk = {}

\* The first n archives of the snapshot.
Prefix(n) == SubSeq(snapshot, 1, n)

\* C25: size-based retention keeps the longest prefix of the snapshot whose
\* sizes add up to the budget or less and hands the rest, and nothing else, to
\* fs.rm: no longer prefix fits the budget, no archive handed to fs.rm is newer
\* than one that is kept, and once every removal succeeded the kept prefix is
\* what the disk holds.
MinimalSuffixEvicted ==
    policy = "size" /\ grouped =>
        LET k == Len(packages)
        IN /\ k <= Len(snapshot)
           /\ packages = Prefix(k)
           /\ SumSizes(Prefix(k)) <= maximumCacheSize
           /\ \A n \in (k + 1)..Len(snapshot) : SumSizes(Prefix(n)) > maximumCacheSize
           /\ Range(rmPromises) = {snapshot[n].filePath : n \in (k + 1)..Len(snapshot)}
           /\ \A n \in (k + 1)..Len(snapshot) : \A m \in 1..k :
                 snapshot[n].mtime <= snapshot[m].mtime
           /\ totalSize = SumSizes(Prefix(k))
           /\ AllRemoved => onDisk = Paths(Prefix(k))

\* Some but not all archives were evicted, all removals succeeded, and among
\* the archives were two of different age.
MinimalSuffixEvictedWitness ==
    /\ policy = "size"
    /\ grouped
    /\ AllRemoved
    /\ Len(packages) > 0
    /\ Len(rmPromises) > 0
    /\ snapshot[1].mtime > snapshot[Len(snapshot)].mtime
    /\ onDisk = Paths(packages)

\* ------------------------------------------------- identities by value
\* The archives of the snapshot whose CONTROL gave the name and the
\* architecture of archive f, f among them.
SameIdentity(f) ==
    {g \in Paths(snapshot) :
        /\ disk[g].meta.kind = "ok"
        /\ disk[g].meta.packageName = disk[f].meta.packageName
        /\ disk[g].meta.architecture = disk[f].meta.architecture}

\* C26: identity-based retention hands an archive to fs.rm only when another
\* archive with the same package name and the same architecture is kept; an
\* archive that is alone with its pair of name and architecture is kept,
\* whichever archives share only its name or only its architecture.
IdentityByBothFields ==
    policy = "identity" /\ grouped =>
        /\ \A f \in Scheduled :
              /\ disk[f].meta.kind = "ok"
              /\ \E g \in SameIdentity(f) \ {f} : g \in remainingPackages
        /\ \A f \in Paths(snapshot) :
              disk[f].meta.kind = "ok" /\ SameIdentity(f) = {f}
                  => f \in remainingPackages /\ f \notin Scheduled

\* An old version was handed to fs.rm while two archives that share the name
\* but not the architecture, or the architecture but not the name, were kept.
IdentityByBothFieldsWitness ==
    /\ policy = "identity"
    /\ grouped
    /\ Scheduled # {}
    /\ \E f, g \in remainingPackages :
          /\ disk[f].meta.kind = "ok"
          /\ disk[g].meta.kind = "ok"
          /\ \/ /\ disk[f].meta.packageName = disk[g].meta.packageName
                /\ disk[f].meta.architecture # disk[g].meta.architecture
             \/ /\ disk[f].meta.packageName # disk[g].meta.packageName
                /\ disk[f].meta.architecture = disk[g].meta.architecture

\* ---------------------------------------------------- deletion accounting
\* The identity-based pass removed archives and all its removals succeeded:
\* the count and the size it logs are remainingPackages.size and totalSize.
RemovalsSucceeded ==
    /\ policy = "identity"
    /\ grouped
    /\ rmPromises # <<>>
    /\ AllRemoved

\* C27: in identity-based retention no archive is both handed to fs.rm and in
\* remainingPackages, and the two together are the snapshot; an archive whose
\* extraction failed is in remainingPackages; after successful removals the
\* count and the size logged are those of the archives of the snapshot that
\* were not handed to fs.rm, which are the archives left on disk.
DeletionAccounting ==
    policy = "identity" /\ grouped =>
        /\ Scheduled \cap remainingPackages = {}
        /\ Scheduled \cup remainingPackages = Paths(snapshot)
        /\ Len(rmPromises) = Cardinality(Scheduled)
        /\ \A f \in Paths(snapshot) :
              disk[f].meta.kind # "ok" => f \in remainingPackages
        /\ RemovalsSucceeded =>
              /\ Cardinality(remainingPackages) = Len(snapshot) - Len(rmPromises)
              /\ totalSize = SumDisk(disk, Paths(snapshot) \ Scheduled)
              /\ onDisk = Paths(snapshot) \ Scheduled

\* Old versions were removed from a cache that also holds an archive without
\* a readable CONTROL; the pass logged two archives.
DeletionAccountingWitness ==
    /\ RemovalsSucceeded
    /\ \E f \in remainingPackages : disk[f].meta.kind # "ok"
    /\ Cardinality(remainingPackages) = 2
    /\ totalSize = 2 * GiB

\* ------------------------------------------------ gating of the post step
\* The post step handed an archive to fs.rm, lost an archive from disk, or
\* entered saveCache.
PrunedOrSaved ==
    \/ rmPromises # <<>>
    \/ onDisk # survivorsBefore
    \/ saveCacheCalls > 0
    \/ cacheSaveCalls > 0

\* The four conditions under which main() reaches removeOldVersions.
GatesOpen ==
    /\ mainStepSucceeded = "true"
    /\ saveCacheInput = TRUE
    /\ Len(snapshot) > 0
    /\ computeHashOfBinaryPackage(snapshot[1]) # previousHash

\* main() returned early.
GatedOut == outcome \in {"mainStepFailed", "saveDisabled", "noPackages", "unchanged"}

\* C28: the identity-based post step hands archives to fs.rm and enters
\* saveCache only when the main step recorded success, the save-cache input is
\* true, the scan found an archive and the hash of the newest archive differs
\* from the recorded one; a post step that returned early removed nothing and
\* saved nothing; cache.saveCache is called only when every removal of
\* removeOldVersions has succeeded, and at most once in a run.
PostGating ==
    policy = "identity" =>
        /\ PrunedOrSaved => GatesOpen
        /\ GatedOut => ~PrunedOrSaved /\ ~grouped /\ identifiedPackages = <<>>
        /\ saveCacheCalls > 0 => AllRemoved
        /\ saveCacheCalls <= 1
        /\ cacheSaveCalls <= saveCacheCalls

\* The cache was saved after old versions had been removed.
PostGatingWitness ==
    /\ policy = "identity"
    /\ outcome = "saved"
    /\ cacheSaveCalls = 1
    /\ rmPromises # <<>>
    /\ AllRemoved

\* The newest archive did not change: two archives of one package stay.
PostGatingUnchangedWitness ==
    /\ policy = "identity"
    /\ outcome = "unchanged"
    /\ \E f, g \in onDisk : f # g /\ disk[f].meta.kind = "ok" /\ disk[f].meta = disk[g].meta

\* ----------------------------------------------------------- the main step
\* What a child process answers with: 'close' with an exit code, which is null
\* when a signal ended the process, or 'error' when it could not be spawned.
ChildEvents ==
    { [event |-> "close", code |-> Some(0)],
      [event |-> "close", code |-> Some(1)],
      [event |-> "close", code |-> undefined],
      [event |-> "error", code |-> undefined] }

\* execProcess with the exit code not looked at.
execProcessIgnoringExitCode(ev) ==
    IF ev.event = "error" THEN "rejected" ELSE "fulfilled"

\* execProcess (lines 10-18): 'error' rejects, 'close' resolves with the exit
\* code, and a code that is not 0 throws.
execProcess(ev) ==
    IF ev.event = "error" THEN "rejected"
    ELSE IF ev.code # Some(0) THEN "rejected"
    ELSE "fulfilled"

\* The commands of setupVcpkg (lines 158-174), in order.
SetupCommands(in) ==
    <<IF in.vcpkgRootExists THEN "git fetch" ELSE "git clone", "git checkout",
      "bootstrap-vcpkg">>

\* The command of runVcpkgInstall (line 211).
InstallCommands(in) == <<"vcpkg install">>

\* The commands main() runs (lines 218-226), in order.
Plan(in) ==
    (IF in.runSetup THEN SetupCommands(in) ELSE <<>>)
    \o (IF in.runInstall THEN InstallCommands(in) ELSE <<>>)

\* The archives of one package the post step of the run finds, the i-th
\* written at time i.
MainDisk(n) ==
    [i \in 1..n |->
        [size |-> GiB, mtime |-> i,
         meta |-> [kind |-> "ok", packageName |-> "libfoo", architecture |-> "x64"]]]

\* main() of the main step has parsed its inputs.
InitMain ==
    /\ ExtractStart
    /\ DetectIdle
    /\ ScanIdle
    /\ mainPc = "restore"
    /\ inputs \in [runSetup : BOOLEAN, runInstall : BOOLEAN, vcpkgRootExists : BOOLEAN]
    /\ restoreOutcome = ""
    /\ commands = <<>>
    /\ recordedSuccess = ""
    /\ mainSetFailed = FALSE
    /\ policy = "identity"
    /\ \E n \in 0..MaxArchives : disk = MainDisk(n)
    /\ onDisk = DOMAIN disk
    /\ survivorsBefore = DOMAIN disk
    /\ PostFresh

\* An AbortActionError leaves main() and runMain calls core.setFailed.
MainThrows ==
    /\ mainPc' = "failed"
    /\ mainSetFailed' = runMainCatches("AbortActionError")

\* restoreCache (lines 46-109): a cache directory that cannot be made is
\* fatal; a hit, a miss and an error of cache.restoreCache all return.
MainRestoreCache ==
    /\ mainPc = "restore"
    /\ \E o \in {"mkdirFailed", "hit", "miss", "error"} :
        /\ restoreOutcome' = o
        /\ IF o = "mkdirFailed"
           THEN MainThrows
           ELSE /\ mainPc' = IF inputs.runSetup THEN "commit" ELSE "exec"
                /\ UNCHANGED mainSetFailed
    /\ UNCHANGED <<inputs, commands, recordedSuccess>>
    /\ UNCHANGED <<postVars, extractVars, detectVars, scanVars>>

\* extractVcpkgCommit (lines 132-145) at the head of setupVcpkg.
ExtractVcpkgCommit ==
    /\ mainPc = "commit"
    /\ \E found \in BOOLEAN :
        IF found
        THEN mainPc' = "exec" /\ UNCHANGED mainSetFailed
        ELSE MainThrows
    /\ UNCHANGED <<inputs, restoreOutcome, commands, recordedSuccess>>
    /\ UNCHANGED <<postVars, extractVars, detectVars, scanVars>>

\* execCommand up to its await (lines 20-30): the next command of the plan is
\* spawned; a spawn that throws is caught and thrown on (lines 31-34).
SpawnCommand ==
    /\ mainPc = "exec"
    /\ Len(commands) < Len(Plan(inputs))
    /\ \E threw \in BOOLEAN :
        /\ commands' = Append(commands,
               [name |-> Plan(inputs)[Len(commands) + 1],
                outcome |-> IF threw THEN "spawnThrew" ELSE "running"])
        /\ IF threw
           THEN MainThrows
           ELSE mainPc' = "await" /\ UNCHANGED mainSetFailed
    /\ UNCHANGED <<inputs, restoreOutcome, recordedSuccess>>
    /\ UNCHANGED <<postVars, extractVars, detectVars, scanVars>>

\* The child process answers: execProcess returns or throws, and execCommand
\* throws an AbortActionError on (lines 30-34).
CommandSettles ==
    /\ mainPc = "await"
    /\ \E ev \in ChildEvents :
        /\ commands' = [commands EXCEPT ![Len(commands)].outcome =
               IF ev.event = "error" THEN "error"
               ELSE IF ev.code = undefined THEN "signal"
               ELSE IF ev.code = Some(0) THEN "exit0" ELSE "exit1"]
        /\ IF execProcess(ev) = "fulfilled"
           THEN mainPc' = "exec" /\ UNCHANGED mainSetFailed
           ELSE MainThrows
    /\ UNCHANGED <<inputs, restoreOutcome, recordedSuccess>>
    /\ UNCHANGED <<postVars, extractVars, detectVars, scanVars>>

\* core.saveState(mainStepSucceededState, 'true') (line 227).
RecordSuccess ==
    /\ mainPc = "exec"
    /\ Len(commands) = Len(Plan(inputs))
    /\ recordedSuccess' = "true"
    /\ mainPc' = "done"
    /\ UNCHANGED <<inputs, restoreOutcome, commands, mainSetFailed>>
    /\ UNCHANGED <<postVars, extractVars, detectVars, scanVars>>

\* The post step of the run starts once the main step is over and reads the
\* state the main step saved.
PostAfterMain ==
    /\ mainPc \in {"done", "failed"}
    /\ PostMain
    /\ mainStepSucceeded' = recordedSuccess

NextMain ==
    \/ MainRestoreCache
    \/ ExtractVcpkgCommit
    \/ SpawnCommand
    \/ CommandSettles
    \/ RecordSuccess
    \/ PostAfterMain
    \/ FindBinaryPackagesDone
    \/ ExtractNext
    \/ RmFulfilled
    \/ RmRejected
    \/ SaveCacheSettled

SpecMain == InitMain /\ [][NextMain]_vars

\* --------------------------------------------- properties of the main step
\* The commands spawned so far are the first commands of the plan, in order.
InPlanOrder ==
    /\ Len(commands) <= Len(Plan(inputs))
    /\ \A i \in DOMAIN commands : commands[i].name = Plan(inputs)[i]

\* A command that was spawned did not end with exit code 0.
CommandFailed(i) == commands[i].outcome \in {"spawnThrew", "error", "signal", "exit1"}

\* The post step handed nothing to fs.rm, removed nothing and saved nothing.
PostDidNothing ==
    /\ rmPromises = <<>>
    /\ onDisk = survivorsBefore
    /\ identifiedPackages = <<>>
    /\ saveCacheCalls = 0
    /\ cacheSaveCalls = 0
    /\ pc \in {"start", "done"}
    /\ outcome \in {"", "mainStepFailed"}

MainStepSucceededWitness ==
    /\ recordedSuccess = "true"
    /\ Len(commands) = 4
    /\ restoreOutcome = "error"
    /\ outcome = "saved"
    /\ rmPromises # <<>>

\* ----------------------------------------------- no recorded fingerprint
\* restoreCache returned without saving a hash: a cache miss, a restored
\* cache without an archive, or an error thrown inside its try block.
NothingRecorded ==
    \/ restored = "miss"
    \/ restored = "error"
    \/ restored = "hit" /\ recordedFrom = <<>>

\* C30: after a cache miss, a restored cache without archives or a failed
\* restore the main step went on and no hash of a newest archive is recorded;
\* with no hash recorded the post step reports 'changed' whenever its scan
\* found at least one archive, and returns for want of archives only when it
\* found none.
NoFingerprintMeansChanged ==
    /\ restored # "" => phase \in {"build", "post", "done"}
    /\ NothingRecorded <=> (restored # "" /\ recorded = NoHash)
    /\ (phase = "done" /\ recorded = NoHash) =>
          /\ Len(scanned) > 0 <=> detected = "changed"
          /\ Len(scanned) = 0 <=> detected = "noPackages"

\* The cache was restored without an archive, the build wrote one, and the
\* post step reports 'changed'.
NoFingerprintMeansChangedWitness ==
    /\ restored = "hit"
    /\ recorded = NoHash
    /\ phase = "done"
    /\ Len(scanned) = 1
    /\ detected = "changed"

\* The same after a cache miss.
ChangedAfterMissWitness ==
    /\ restored = "miss"
    /\ phase = "done"
    /\ Len(scanned) > 0
    /\ detected = "changed"

\* The same after a restore that threw, the build having written nothing.
ChangedAfterFailedRestoreWitness ==
    /\ restored = "error"
    /\ phase = "done"
    /\ Len(scanned) = MaxCached
    /\ detected = "changed"

\* In the post step: with no hash recorded and an archive found, main() goes
\* on to removeOldVersions and saveCache.
NoFingerprintProceeds ==
    (policy = "identity" /\ snapshot # <<>> /\ previousHash = NoHash) =>
        /\ pc \in {"extract", "awaitRm", "awaitSave", "done", "failed"}
        /\ outcome \in {"", "saved", "saveError"}
        /\ pc \in {"awaitSave", "done"} => saveCacheCalls = 1
====
